---- MODULE Spec2Model ----
(***************************************************************************)
(* The crawl-and-answer loop of the website chatbot: the shared store of   *)
(* flow.py, the three nodes of nodes.py (CrawlAndExtract, AgentDecision,   *)
(* DraftAnswer) and the pure helpers of utils/ they call.                  *)
(*                                                                         *)
(* A text is a sequence of symbols; a symbol is a one-character string, or *)
(* a chunk of characters the model never looks inside ("https://").        *)
(* Python's list/dict indices are kept 0-based: index i of                 *)
(* all_discovered_urls is position i + 1 of the sequence.                  *)
(***************************************************************************)
EXTENDS Integers, Sequences, FiniteSets, TLC

VARIABLES
    user_question,          \* shared["user_question"]
    question_keywords,      \* shared["question_keywords"]
    urls_to_process,        \* shared["urls_to_process"]: list of indices
    visited_urls,           \* shared["visited_urls"]: set of indices
    url_content,            \* shared["url_content"]: index -> page record
    url_content_keys,       \* list(shared["url_content"]): its keys as inserted
    all_discovered_urls,    \* shared["all_discovered_urls"]: list of URLs
    final_answer,           \* shared["final_answer"]
    pc,                     \* the node method the flow runs next
    crawl_res,              \* exec_res of CrawlAndExtract in flight
    response_case,          \* the shape of the completion AgentDecision.exec got
    decision,               \* exec_res of AgentDecision in flight
    draft,                  \* exec_res of DraftAnswer in flight
    prompt,                 \* the prompt of the call_llm of the exec in flight
    response,               \* what that call_llm returned
    last_action,            \* the action string the last post() returned
    requested_action,       \* the action of the decision post() last handled
    fetch_status,           \* how the last fetch ended: "ok", "failed", "none"
    error,                  \* the exception that ended the run, if any
    crawl_cycles,           \* runs of the CrawlAndExtract node so far
    fetch_calls,            \* calls of scrape_website so far
    llm_calls,              \* calls of call_llm so far
    active,                 \* the call of run_chatbot that is executing
    store_of,               \* call of run_chatbot -> the dict object it got
    stores,                 \* dict object -> its items, while no call executes on it
    suspended,              \* waiting call of run_chatbot -> what it holds
    called,                 \* the helper of utils/ called on its own, with its arguments
    returned,               \* what that helper returned
    request,                \* the ChatRequest the chat endpoint is handling
    reply                   \* what the chat endpoint sent back

\* the items of the dict `shared` of the executing call
shared == <<user_question, question_keywords, urls_to_process, visited_urls,
            url_content, url_content_keys, all_discovered_urls, final_answer>>

\* what the executing call holds besides, in the flow and in the nodes
frame == <<pc, crawl_res, response_case, decision, draft, prompt, response,
           last_action, requested_action, fetch_status, error, crawl_cycles,
           fetch_calls, llm_calls>>

\* the other calls of run_chatbot
runs == <<active, store_of, stores, suspended>>

\* a helper of utils/ called on its own, outside a run
helpers == <<called, returned>>

\* the chat endpoint of main.py around the run
endpoint == <<request, reply>>

vars == <<shared, frame, runs, helpers, endpoint>>

-----------------------------------------------------------------------------
(* Python text primitives *)

\* Python's None, as a one-symbol text no page, URL or completion contains
None == <<"None">>

\* bool(x) of a text or None
Truthy(x) == x # None /\ x # <<>>

Whitespace == {" ", "\t", "\n"}

UpperCase == {"A", "B", "C", "D", "F", "H", "I", "N", "O", "R", "W"}

\* str.lower() on one symbol
LowerSym(c) ==
    CASE c = "A" -> "a" [] c = "B" -> "b" [] c = "C" -> "c" [] c = "D" -> "d"
      [] c = "F" -> "f" [] c = "H" -> "h"
      [] c = "I" -> "i" [] c = "N" -> "n" [] c = "O" -> "o" [] c = "R" -> "r"
      [] c = "W" -> "w" [] OTHER -> c

\* str.lower()
Lower(s) == [i \in 1..Len(s) |-> LowerSym(s[i])]

\* a in b, for texts
IsSubstr(a, b) ==
    \E i \in 0..(Len(b) - Len(a)) : SubSeq(b, i + 1, i + Len(a)) = a

\* s[:n]
Prefix(s, n) == SubSeq(s, 1, IF Len(s) < n THEN Len(s) ELSE n)

RECURSIVE LStrip(_)
LStrip(s) == IF s # <<>> /\ Head(s) \in Whitespace THEN LStrip(Tail(s)) ELSE s

RECURSIVE RStrip(_)
RStrip(s) ==
    IF s # <<>> /\ s[Len(s)] \in Whitespace
    THEN RStrip(SubSeq(s, 1, Len(s) - 1)) ELSE s

\* str.strip()
Strip(s) == RStrip(LStrip(s))

\* the least number of a non-empty set of numbers
Least(S) == CHOOSE i \in S : \A j \in S : i <= j

\* str.split(sep) for a one-symbol separator, from position start on: empty
\* pieces are kept
RECURSIVE SplitFrom(_, _, _)
SplitFrom(s, sep, start) ==
    LET seps == {i \in start..Len(s) : s[i] = sep}
    IN  IF seps = {} THEN <<SubSeq(s, start, Len(s))>>
        ELSE <<SubSeq(s, start, Least(seps) - 1)>>
             \o SplitFrom(s, sep, Least(seps) + 1)

Split(s, sep) == SplitFrom(s, sep, 1)

\* str.split(): on runs of whitespace, empty pieces dropped
RECURSIVE WordsAcc(_, _)
WordsAcc(s, cur) ==
    IF s = <<>> THEN (IF cur = <<>> THEN <<>> ELSE <<cur>>)
    ELSE IF Head(s) \in Whitespace
         THEN (IF cur = <<>> THEN <<>> ELSE <<cur>>) \o WordsAcc(Tail(s), <<>>)
         ELSE WordsAcc(Tail(s), Append(cur, Head(s)))

Words(s) == WordsAcc(s, <<>>)

\* sep.join(pieces)
RECURSIVE Join(_, _)
Join(pieces, sep) ==
    IF pieces = <<>> THEN <<>>
    ELSE IF Len(pieces) = 1 THEN pieces[1]
    ELSE pieces[1] \o sep \o Join(Tail(pieces), sep)

\* re.sub(r'\s+', ' ', s): a run of whitespace becomes one space, put where
\* the run starts
CollapseWs(s) ==
    LET places == [i \in 1..Len(s) |-> i]
        StartsRun(i) == i = 1 \/ s[i - 1] \notin Whitespace
        Stays(i) == s[i] \notin Whitespace \/ StartsRun(i)
        left == SelectSeq(places, Stays)
    IN  [k \in 1..Len(left) |->
            IF s[left[k]] \in Whitespace THEN " " ELSE s[left[k]]]

-----------------------------------------------------------------------------
(* utils/url_utils.py: extract_question_keywords *)

\* the symbols r'\w' matches
WordSymbols ==
    {"a","b","c","d","e","f","g","h","i","j","k","l","m","n","o","p","q","r",
     "s","t","u","v","w","x","y","z","_","0","1","2","3","4","5","6","7","8","9"}
    \cup UpperCase

stop_words == {
    <<"h","o","w">>, <<"w","h","a","t">>, <<"w","h","e","r","e">>, <<"w","h","e","n">>,
    <<"w","h","y">>, <<"w","h","o">>, <<"w","h","i","c","h">>, <<"c","a","n">>,
    <<"c","o","u","l","d">>, <<"w","o","u","l","d">>, <<"s","h","o","u","l","d">>,
    <<"d","o">>, <<"d","o","e","s">>, <<"d","i","d">>, <<"i","s">>, <<"a","r","e">>,
    <<"w","a","s">>, <<"w","e","r","e">>, <<"t","h","e">>, <<"a">>, <<"a","n">>,
    <<"a","n","d">>, <<"o","r">>, <<"b","u","t">>, <<"i","n">>, <<"o","n">>,
    <<"a","t">>, <<"t","o">>, <<"f","o","r">>, <<"o","f">>, <<"w","i","t","h">>,
    <<"b","y">>, <<"f","r","o","m">>, <<"u","p">>, <<"a","b","o","u","t">>,
    <<"i","n","t","o">>, <<"t","h","r","o","u","g","h">>, <<"d","u","r","i","n","g">>,
    <<"b","e","f","o","r","e">>, <<"a","f","t","e","r">>, <<"a","b","o","v","e">>,
    <<"b","e","l","o","w">>, <<"b","e","t","w","e","e","n">>, <<"a","m","o","n","g">>,
    <<"a","r","o","u","n","d">> }

\* what re.sub(r'[^\w\s]', '', ...) keeps
IsKeptSym(c) == c \in WordSymbols \cup Whitespace

\* the length of the word not looked at
IsKeyword_anyLength(word) == word \notin stop_words

IsKeyword(word) == word \notin stop_words /\ Len(word) > 2

extract_question_keywords(question) ==
    LET question_clean == SelectSeq(Lower(question), IsKeptSym)
        words == Words(question_clean)
    IN  SelectSeq(words, IsKeyword)

-----------------------------------------------------------------------------
(* utils/url_utils.py: get_url_keywords, find_relevant_urls *)

\* s up to the first symbol of stops
RECURSIVE UpTo(_, _)
UpTo(s, stops) ==
    IF s = <<>> \/ Head(s) \in stops THEN <<>>
    ELSE <<Head(s)>> \o UpTo(Tail(s), stops)

\* s from the first symbol of stops on
RECURSIVE From(_, _)
From(s, stops) ==
    IF s = <<>> \/ Head(s) \in stops THEN s ELSE From(Tail(s), stops)

\* urlparse(url).path: what follows the netloc, up to the query or fragment
Path(url) ==
    IF url # <<>> /\ Head(url) = "https://"
    THEN UpTo(From(Tail(url), {"/", "?", "#"}), {"?", "#"})
    ELSE UpTo(url, {"?", "#"})

EndsWith(s, tail) ==
    Len(s) >= Len(tail) /\ SubSeq(s, Len(s) - Len(tail) + 1, Len(s)) = tail

WebExtensions ==
    { <<".","h","t","m","l">>, <<".","h","t","m">>, <<".","p","h","p">>,
      <<".","a","s","p">>, <<".","j","s","p">> }

\* re.sub(r'\.(html|htm|php|asp|jsp)$', '', path)
StripExtension(path) ==
    IF \E ext \in WebExtensions : EndsWith(path, ext)
    THEN LET ext == CHOOSE e \in WebExtensions : EndsWith(path, e)
         IN  SubSeq(path, 1, Len(path) - Len(ext))
    ELSE path

\* re.split(r'[/_\-.]', path): on every separator, empty pieces kept
RECURSIVE SplitAnyAcc(_, _, _)
SplitAnyAcc(s, seps, cur) ==
    IF s = <<>> THEN <<cur>>
    ELSE IF Head(s) \in seps THEN <<cur>> \o SplitAnyAcc(Tail(s), seps, <<>>)
    ELSE SplitAnyAcc(Tail(s), seps, Append(cur, Head(s)))

PathSeparators == {"/", "_", "-", "."}

common_words ==
    { <<"w","w","w">>, <<"i","n","d","e","x">>, <<"h","o","m","e">>,
      <<"p","a","g","e">>, <<"d","e","f","a","u","l","t">>, <<"m","a","i","n">> }

IsUrlKeyword(k) == k # <<>> /\ k \notin common_words /\ Len(k) > 2

get_url_keywords(url) ==
    LET path == StripExtension(Lower(Path(url)))
        keywords == SplitAnyAcc(path, PathSeparators, <<>>)
    IN  SelectSeq(keywords, IsUrlKeyword)

helpful_indicators ==
    << <<"s","u","p","p","o","r","t">>, <<"h","e","l","p">>, <<"f","a","q">>,
       <<"c","o","n","t","a","c","t">>, <<"a","b","o","u","t">>,
       <<"p","o","l","i","c","y">>, <<"r","e","t","u","r","n">>,
       <<"r","e","f","u","n","d">>, <<"s","h","i","p","p","i","n","g">>,
       <<"p","r","o","d","u","c","t">>, <<"s","e","r","v","i","c","e">>,
       <<"d","o","c","u","m","e","n","t","a","t","i","o","n">>,
       <<"g","u","i","d","e">> >>

\* the weights of lines 84, 89 and 100
PathWeight == 3

TextWeight == 2

IndicatorWeight == 1

\* lines 82-84: the loop over question_keywords, on the URL-path keywords
RECURSIVE PathScore(_, _, _)
PathScore(question_keywords_, url_keywords, score) ==
    IF question_keywords_ = <<>> THEN score
    ELSE LET keyword == Head(question_keywords_)
             hit == \E i \in 1..Len(url_keywords) :
                        IsSubstr(Lower(keyword), url_keywords[i])
         IN  PathScore(Tail(question_keywords_), url_keywords,
                       IF hit THEN score + PathWeight ELSE score)

\* lines 87-89: the loop over question_keywords, on the link text
RECURSIVE TextScore(_, _, _)
TextScore(question_keywords_, text, score) ==
    IF question_keywords_ = <<>> THEN score
    ELSE TextScore(Tail(question_keywords_), text,
                   IF IsSubstr(Lower(Head(question_keywords_)), text)
                   THEN score + TextWeight ELSE score)

\* lines 98-100: the loop over helpful_indicators
RECURSIVE IndicatorScore(_, _, _, _)
IndicatorScore(indicators, url, text, score) ==
    IF indicators = <<>> THEN score
    ELSE IndicatorScore(Tail(indicators), url, text,
                        IF IsSubstr(Head(indicators), url)
                           \/ IsSubstr(Head(indicators), text)
                        THEN score + IndicatorWeight ELSE score)

\* the indicators counted on the link text only
LinkScore_textIndicators(link, question_keywords_) ==
    LET url == Lower(link.url)
        text == Lower(link.text)
        s1 == PathScore(question_keywords_, get_url_keywords(url), 0)
        s2 == TextScore(question_keywords_, text, s1)
    IN  IndicatorScore(helpful_indicators, <<>>, text, s2)

\* lines 76-100: the score of one link
LinkScore(link, question_keywords_) ==
    LET url == Lower(link.url)
        text == Lower(link.text)
        s1 == PathScore(question_keywords_, get_url_keywords(url), 0)
        s2 == TextScore(question_keywords_, text, s1)
    IN  IndicatorScore(helpful_indicators, url, text, s2)

\* lines 75-107: the links with a score above 0, with their scores
RECURSIVE ScoredUrls(_, _)
ScoredUrls(links, question_keywords_) ==
    IF links = <<>> THEN <<>>
    ELSE LET link == Head(links)
             score == LinkScore(link, question_keywords_)
         IN  (IF score > 0
              THEN <<[url |-> link.url, text |-> link.text, score |-> score]>>
              ELSE <<>>)
             \o ScoredUrls(Tail(links), question_keywords_)

\* one record put into a list sorted by falling score, behind the records of
\* its own score
RECURSIVE InsertByScore(_, _)
InsertByScore(sorted, rec) ==
    IF sorted = <<>> THEN <<rec>>
    ELSE IF Head(sorted).score >= rec.score
         THEN <<Head(sorted)>> \o InsertByScore(Tail(sorted), rec)
         ELSE <<rec>> \o sorted

\* a sort by rising score, then reversed: the records of one score come out
\* in the reverse of their input order
RECURSIVE SortByScore_reversed(_)
SortByScore_reversed(scored_urls) ==
    IF scored_urls = <<>> THEN <<>>
    ELSE LET rest == SortByScore_reversed(Tail(scored_urls))
             rec == Head(scored_urls)
             IsNotBelow(r) == r.score >= rec.score
             IsBelow(r) == r.score < rec.score
         IN  SelectSeq(rest, IsNotBelow) \o <<rec>> \o SelectSeq(rest, IsBelow)

\* line 110: scored_urls.sort(key=..., reverse=True), a stable sort
RECURSIVE SortByScore(_)
SortByScore(scored_urls) ==
    IF scored_urls = <<>> THEN <<>>
    ELSE InsertByScore(SortByScore(SubSeq(scored_urls, 1, Len(scored_urls) - 1)),
                       scored_urls[Len(scored_urls)])

find_relevant_urls(links, question_keywords_) ==
    SortByScore(ScoredUrls(links, question_keywords_))

-----------------------------------------------------------------------------
(* utils/web_scraper.py: extract_relevant_content *)

RelevantLimit == 1000

extract_relevant_content(content, keywords) ==
    IF ~Truthy(content) \/ keywords = <<>> THEN content
    ELSE LET sentences == Split(content, ".")
             stripped == [i \in 1..Len(sentences) |-> Strip(sentences[i])]
             Matches(sentence) ==
                 \E k \in 1..Len(keywords) :
                     IsSubstr(Lower(keywords[k]), Lower(sentence))
             relevant_sentences == SelectSeq(stripped, Matches)
         IN  IF relevant_sentences # <<>>
             THEN Join(relevant_sentences, <<".", " ">>)
             ELSE Prefix(content, RelevantLimit)

-----------------------------------------------------------------------------
(* utils/web_scraper.py: scrape_website *)

\* urlparse(url).netloc: what follows the scheme, up to the first "/"
RECURSIVE UpToSlash(_)
UpToSlash(s) ==
    IF s = <<>> \/ Head(s) = "/" THEN <<>> ELSE <<Head(s)>> \o UpToSlash(Tail(s))

Netloc(url) ==
    IF url # <<>> /\ Head(url) = "https://" THEN UpToSlash(Tail(url)) ELSE <<>>

\* urljoin(url, href) for an absolute href and for a root-relative one
urljoin(url, href) ==
    IF href # <<>> /\ Head(href) = "https://" THEN href
    ELSE IF href # <<>> /\ Head(href) = "/" THEN <<"https://">> \o Netloc(url) \o href
    ELSE url

ContentLimit == 5000

LinkLimit == 20

\* the tags soup(...).decompose() removes before text and links are read
DecomposedTags == {"script", "style", "nav", "footer", "header"}

\* soup.get_text(): the texts of the elements left, in page order
RECURSIVE get_text(_)
get_text(body) ==
    IF body = <<>> THEN <<>> ELSE Head(body).text \o get_text(Tail(body))

LinkUrls(links) == {links[i].url : i \in 1..Len(links)}

\* the loop with no look at the domain of the link
RECURSIVE ExtractLinks_anyDomain(_, _, _)
ExtractLinks_anyDomain(url, anchors, links) ==
    IF anchors = <<>> THEN links
    ELSE LET link == Head(anchors)
             absolute_url == urljoin(url, link.href)
             link_text == Strip(link.text)
             keep == link_text # <<>> /\ absolute_url \notin LinkUrls(links)
         IN  ExtractLinks_anyDomain(url, Tail(anchors),
                 IF keep THEN Append(links, [url |-> absolute_url, text |-> link_text])
                 ELSE links)

\* the loop over soup.find_all('a', href=True)
RECURSIVE ExtractLinks(_, _, _)
ExtractLinks(url, anchors, links) ==
    IF anchors = <<>> THEN links
    ELSE LET link == Head(anchors)
             absolute_url == urljoin(url, link.href)
             link_text == Strip(link.text)
             keep == /\ Netloc(absolute_url) = Netloc(url)
                     /\ link_text # <<>>
                     /\ absolute_url \notin LinkUrls(links)
         IN  ExtractLinks(url, Tail(anchors),
                 IF keep THEN Append(links, [url |-> absolute_url, text |-> link_text])
                 ELSE links)

IsKeptElement(el) == el.tag \notin DecomposedTags

IsAnchor(el) == el.tag = "a"

FetchFailure(url, message) ==
    [url |-> url, title |-> None, content |-> None, links |-> <<>>,
     error |-> message]

\* outcome: what requests.get and the HTML of the page bring
scrape_website(url, outcome) ==
    IF outcome.kind = "RequestException"
    THEN FetchFailure(url, <<"Request failed">>)
    ELSE LET soup == SelectSeq(outcome.body, IsKeptElement)
         IN  IF outcome.title.tag /\ outcome.title.string = None
             THEN \* title.strip() on None raises AttributeError
                  FetchFailure(url, <<"Parsing failed">>)
             ELSE LET title == IF outcome.title.tag THEN outcome.title.string
                               ELSE <<"No title">>
                      content == Strip(CollapseWs(get_text(soup)))
                      links == ExtractLinks(url, SelectSeq(soup, IsAnchor), <<>>)
                  IN  [url |-> url,
                       title |-> Strip(title),
                       content |-> Prefix(content, ContentLimit),
                       links |-> Prefix(links, LinkLimit),
                       error |-> None]

-----------------------------------------------------------------------------
(* The site: what a fetch can bring, within bounds *)

\* the most anchors on a page
MaxLinks == 2

Url_root  == <<"https://", "d">>
Url_index == <<"https://", "d", "/", "i">>
Url_a     == <<"https://", "d", "/", "a">>
Url_ab    == <<"https://", "d", "/", "a", "b">>
Url_b     == <<"https://", "d", "/", "b">>
Url_other == <<"https://", "e", "/", "a">>

SeedUrls == {Url_root, Url_index}

Text_refund == <<"N","o","."," ","R","e","f","u","n","d"," ","o","k",".">>

\* the text block of a page: none, one with two sentences, a blank one
TextElements ==
    { <<>>,
      <<[tag |-> "p", text |-> Text_refund, href |-> None]>>,
      <<[tag |-> "p", text |-> <<" ">>,     href |-> None]>> }

\* anchors to pages of the site (absolute and root-relative) and to another
\* site, an anchor with no text, and an anchor inside a nav element
LinkElements ==
    { [tag |-> "a",   text |-> <<"g","o">>,   href |-> Url_a],
      [tag |-> "a",   text |-> <<"g","o">>,   href |-> <<"/", "a", "b">>],
      [tag |-> "a",   text |-> <<"g","o">>,   href |-> Url_b],
      [tag |-> "a",   text |-> <<"g","o">>,   href |-> Url_other],
      [tag |-> "a",   text |-> <<>>,          href |-> Url_index],
      [tag |-> "nav", text |-> <<"g","o">>,   href |-> Url_index] }

\* a title tag with no string in it, and one with a string
PageTitles ==
    { [tag |-> TRUE,  string |-> None],
      [tag |-> TRUE,  string |-> <<"T", " ">>] }

NoTitleTag == [tag |-> FALSE, string |-> None]

\* the text block, then up to n anchors
PageBodies(n) ==
    { text \o anchors :
        text \in TextElements,
        anchors \in UNION {[1..k -> LinkElements] : k \in 0..n} }

\* a failed request; pages with a title tag and up to MaxLinks anchors; pages
\* with no title tag and at most one anchor
FetchOutcomes ==
    {[kind |-> "RequestException", title |-> NoTitleTag, body |-> <<>>]}
    \cup {[kind |-> "page", title |-> t, body |-> b] :
              t \in PageTitles, b \in PageBodies(MaxLinks)}
    \cup {[kind |-> "page", title |-> NoTitleTag, body |-> b] : b \in PageBodies(1)}

Questions ==
    { <<"H","o","w"," ","d","o"," ","I"," ","g","e","t"," ","a"," ",
        "r","e","f","u","n","d","?">>,
      <<"W","h","o"," ","i","s"," ","i","t","?">> }

-----------------------------------------------------------------------------
(* The model collaborator's completions, for AgentDecision *)

\* YAML scalars as yaml.safe_load types them
Str(text) == [type |-> "str", s |-> text]
Null == [type |-> "null", s |-> None]
Number == [type |-> "int", s |-> None]

\* the pieces of a completion
\* the opening "fence + yaml" marker and the bare fence marker of a code block
FenceYaml == [t |-> "fence_yaml", key |-> "", val |-> Null]
Fence == [t |-> "fence", key |-> "", val |-> Null]
Prose == [t |-> "prose", key |-> "", val |-> Null]
Entry(key, val) == [t |-> "entry", key |-> key, val |-> val]
Garbled == [t |-> "garbled", key |-> "", val |-> Null]

NextUrlTexts ==
    { Url_a, Url_ab, <<" ">> \o Url_b \o <<"\n">>, <<"/", "a">>, <<"z">> }

ActionEntries ==
    { <<>>,
      <<Entry("action", Str(<<"explore">>))>>,
      <<Entry("action", Str(<<"answer">>))>>,
      <<Entry("action", Str(<<"Explore">>))>>,
      <<Entry("action", Null)>> }

NextUrlEntries ==
    { <<>>, <<Entry("next_url", Null)>>, <<Entry("next_url", Number)>> }
    \cup { <<Entry("next_url", Str(text))>> : text \in NextUrlTexts }

\* an explore action with every next_url field; the other action fields
\* with no next_url field and with one
DecisionFields ==
    { <<Entry("action", Str(<<"explore">>))>> \o n : n \in NextUrlEntries }
    \cup ActionEntries
    \cup { <<Entry("action", Str(<<"answer">>)), Entry("next_url", Str(Url_a))>> }

FewFields ==
    { a \o n : a \in {<<>>, <<Entry("action", Str(<<"explore">>))>>},
                n \in {<<>>, <<Entry("next_url", Str(Url_a))>>} }

\* completions with a well-formed block, with a block that holds more than
\* fields, with no block, with a block never closed or never opened
Responses ==
    { <<FenceYaml>> \o b \o <<Fence>> : b \in DecisionFields }
    \cup { <<Prose, FenceYaml>> \o b \o <<Fence, Prose>> : b \in FewFields }
    \cup { <<FenceYaml>> \o b \o o \o <<Fence>> :
               b \in FewFields, o \in {<<Prose>>, <<Garbled>>} }
    \cup FewFields
    \cup { <<Prose>> }
    \cup { <<FenceYaml>> \o b : b \in FewFields }
    \cup { b \o <<Fence>> : b \in FewFields }

\* the completions of DraftAnswer's call
AnswerTexts == { <<>>, <<"The answer.">> }

-----------------------------------------------------------------------------
(* nodes.py: AgentDecision.exec, from the completion on *)

\* response.find(piece, start): the 0-based place of the first piece at or
\* after start, or -1; the yaml fence also starts with the bare fence
Find(resp, pieces, start) ==
    LET hits == {i \in 0..(Len(resp) - 1) : i >= start /\ resp[i + 1].t \in pieces}
    IN  IF hits = {} THEN -1 ELSE CHOOSE i \in hits : \A j \in hits : i <= j

\* a dict with one more key set
DictSet(d, key, val) ==
    [k \in DOMAIN d \cup {key} |-> IF k = key THEN val ELSE d[k]]

RECURSIVE DictOf(_)
DictOf(entries) ==
    IF entries = <<>> THEN <<>>
    ELSE LET last == entries[Len(entries)]
         IN  DictSet(DictOf(SubSeq(entries, 1, Len(entries) - 1)), last.key, last.val)

\* yaml.safe_load of the block's lines
safe_load(yaml_content) ==
    LET kinds == {yaml_content[i].t : i \in 1..Len(yaml_content)}
    IN  IF yaml_content = <<>> THEN [type |-> "null", d |-> <<>>]
        ELSE IF kinds = {"entry"} THEN [type |-> "dict", d |-> DictOf(yaml_content)]
        ELSE IF kinds = {"prose"} THEN [type |-> "str", d |-> <<>>]
        ELSE [type |-> "YAMLError", d |-> <<>>]

\* the action compared without regard to case
ValidActions_anyCase ==
    {Str(<<"explore">>), Str(<<"answer">>), Str(<<"Explore">>)}

ValidActions == {Str(<<"explore">>), Str(<<"answer">>)}

\* a fallback that goes on exploring
ParseFallback_explore ==
    DictSet(DictSet(<<>>, "action", Str(<<"explore">>)),
            "next_url", Str(Url_a))

\* line 204: the decision for a completion with no delimited block
ParseFallback ==
    DictSet(DictSet(<<>>, "action", Str(<<"answer">>)),
            "reasoning", Str(<<"Failed to parse decision">>))

ParseError ==
    DictSet(DictSet(<<>>, "action", Str(<<"answer">>)),
            "reasoning", Str(<<"Error parsing decision">>))

\* lines 194-216: the try block of AgentDecision.exec
ParseDecision(resp) ==
    LET yaml_start == Find(resp, {"fence_yaml"}, 0)
        yaml_end == Find(resp, {"fence_yaml", "fence"}, yaml_start + 1)
        loaded == IF yaml_start # -1 /\ yaml_end # -1
                  THEN safe_load(SubSeq(resp, yaml_start + 2, yaml_end))
                  ELSE [type |-> "dict", d |-> ParseFallback]
    IN  IF loaded.type # "dict"
        THEN \* safe_load raised, or '"action" not in result' / result["action"]
             \* raised TypeError on None or a str
             ParseError
        ELSE IF "action" \notin DOMAIN loaded.d \/ loaded.d["action"] \notin ValidActions
             THEN DictSet(loaded.d, "action", Str(<<"answer">>))
             ELSE loaded.d

\* The shape of a completion, read off its pieces: whether it holds a
\* delimited block, whether the block's lines are fields, and what its action
\* field is.  Kept in the state so that properties can speak of it.
BlockOpen(resp) == {i \in 1..Len(resp) : resp[i].t = "fence_yaml"}

FirstOpen(resp) == CHOOSE i \in BlockOpen(resp) : \A j \in BlockOpen(resp) : i <= j

BlockClose(resp) ==
    {j \in 1..Len(resp) : j > FirstOpen(resp) /\ resp[j].t \in {"fence", "fence_yaml"}}

FirstClose(resp) == CHOOSE j \in BlockClose(resp) : \A k \in BlockClose(resp) : j <= k

ResponseCase(resp) ==
    IF BlockOpen(resp) = {} \/ BlockClose(resp) = {} THEN "no_block"
    ELSE LET inside == {i \in 1..Len(resp) : FirstOpen(resp) < i /\ i < FirstClose(resp)}
             actions == {i \in inside : resp[i].key = "action"}
         IN  IF inside = {} \/ \E i \in inside : resp[i].t # "entry" THEN "no_fields"
             ELSE IF actions = {} THEN "no_action"
             ELSE IF \E i \in actions :
                        /\ \A j \in actions : j <= i
                        /\ resp[i].val \notin {Str(<<"explore">>), Str(<<"answer">>)}
                  THEN "invalid_action"
             ELSE "valid"

-----------------------------------------------------------------------------
(* flow.py: the shared store and the flow *)

EmptyDict == <<>>

\* the calls of run_chatbot the model follows
Calls == {"first", "second"}

\* a dict shared by the calls, built once when the module is loaded
NewStore_module(call) == "module"

\* the dict object initialize_shared_store returns to a call: a dict display
\* builds a new object at every evaluation
NewStore(call) == call

\* CrawlAndExtract's prep_res of None and exec_res of None: records with no index
NoPrep == [url_index |-> -1, url |-> None, question_keywords |-> <<>>]

NoCrawl ==
    [url_index |-> -1, url |-> None, title |-> None, content |-> None,
     links |-> <<>>, error |-> None]

\* no helper is called on its own
NoCall == [fn |-> "none"]

NotReturned == [done |-> FALSE, value |-> None]

\* run_chatbot is called directly, as flow.py's main block and the tests do
NoRequest == [question |-> None, website_url |-> None]

NoReply == [status_code |-> 0, body |-> None]

Direct ==
    /\ called = NoCall
    /\ returned = NotReturned
    /\ request = NoRequest
    /\ reply = NoReply

\* initialize_shared_store(user_question, base_url)
Init ==
    \E question \in Questions, base_url \in SeedUrls :
        /\ user_question = question
        /\ question_keywords = extract_question_keywords(question)
        /\ urls_to_process = <<0>>
        /\ visited_urls = {}
        /\ url_content = EmptyDict
        /\ url_content_keys = <<>>
        /\ all_discovered_urls = <<base_url>>
        /\ final_answer = None
        /\ pc = "CrawlAndExtract"
        /\ crawl_res = NoCrawl
        /\ response_case = "none"
        /\ decision = EmptyDict
        /\ draft = None
        /\ prompt = None
        /\ response = None
        /\ last_action = "none"
        /\ requested_action = "none"
        /\ fetch_status = "none"
        /\ error = "none"
        /\ crawl_cycles = 0
        /\ fetch_calls = 0
        /\ llm_calls = 0
        /\ active = "first"
        /\ store_of = DictSet(EmptyDict, "first", NewStore("first"))
        /\ stores = EmptyDict
        /\ suspended = EmptyDict
        /\ Direct

\* a flow in which the answer node leads back to the decision node
get_next_node_loops(node, action) ==
    IF node = "CrawlAndExtract" /\ action = "agent_decide" THEN "AgentDecision"
    ELSE IF node = "AgentDecision" /\ action = "explore" THEN "CrawlAndExtract"
    ELSE IF node = "AgentDecision" /\ action = "answer" THEN "DraftAnswer"
    ELSE "AgentDecision"

\* create_chatbot_flow: the successor of a node for the action its post()
\* returned; a node with no successor for the action ends the flow
get_next_node(node, action) ==
    IF node = "CrawlAndExtract" /\ action = "agent_decide" THEN "AgentDecision"
    ELSE IF node = "AgentDecision" /\ action = "explore" THEN "CrawlAndExtract"
    ELSE IF node = "AgentDecision" /\ action = "answer" THEN "DraftAnswer"
    ELSE "done"

-----------------------------------------------------------------------------
(* nodes.py: CrawlAndExtract *)

\* CrawlAndExtract.prep: None, or the next index and its URL
CrawlPrep ==
    IF urls_to_process = <<>> THEN NoPrep
    ELSE LET url_index == urls_to_process[1]
         IN  IF url_index >= Len(all_discovered_urls) THEN NoPrep
             ELSE [url_index |-> url_index,
                   url |-> all_discovered_urls[url_index + 1],
                   question_keywords |-> question_keywords]

\* CrawlAndExtract.exec on a prep_res that is not None
CrawlExecResult(prep_res, outcome) ==
    LET result == scrape_website(prep_res.url, outcome)
    IN  IF Truthy(result.error)
        THEN [url_index |-> prep_res.url_index, url |-> prep_res.url,
              error |-> result.error, content |-> None, links |-> <<>>,
              title |-> None]
        ELSE [url_index |-> prep_res.url_index, url |-> prep_res.url,
              title |-> result.title,
              content |-> extract_relevant_content(result.content,
                                                   prep_res.question_keywords),
              links |-> result.links,
              error |-> None]

\* CrawlAndExtract.prep and .exec: one fetch of the head of the queue, on a
\* site whose fetches end in one of outcomes
CrawlAndExtract_fetch(outcomes) ==
    /\ pc = "CrawlAndExtract"
    /\ crawl_cycles' = crawl_cycles + 1
    /\ IF CrawlPrep = NoPrep
       THEN /\ crawl_res' = NoCrawl
            /\ fetch_calls' = fetch_calls
            /\ fetch_status' = "none"
       ELSE /\ \E outcome \in outcomes :
                   crawl_res' = CrawlExecResult(CrawlPrep, outcome)
            /\ fetch_calls' = fetch_calls + 1
            /\ fetch_status' = IF Truthy(crawl_res'.error) THEN "failed" ELSE "ok"
    /\ pc' = "CrawlAndExtract.post"
    /\ UNCHANGED <<shared, response_case, decision, draft, prompt, response,
                   last_action, requested_action, error, llm_calls, runs, helpers, endpoint>>

CrawlAndExtract_exec == CrawlAndExtract_fetch(FetchOutcomes)

\* list.remove(x): the first occurrence goes
RECURSIVE ListRemove(_, _)
ListRemove(list, x) ==
    IF list = <<>> THEN <<>>
    ELSE IF Head(list) = x THEN Tail(list)
    ELSE <<Head(list)>> \o ListRemove(Tail(list), x)

InList(x, list) == \E i \in 1..Len(list) : list[i] = x

\* each new link URL put at the front of the list
RECURSIVE AddDiscovered_front(_, _)
AddDiscovered_front(urls, links) ==
    IF links = <<>> THEN urls
    ELSE AddDiscovered_front(
             IF InList(Head(links).url, urls) THEN urls
             ELSE <<Head(links).url>> \o urls,
             Tail(links))

\* every link URL appended
AddDiscovered_all(urls, links) ==
    urls \o [k \in 1..Len(links) |-> links[k].url]

\* lines 94-98: append each link URL not yet in the list
RECURSIVE AddDiscovered(_, _)
AddDiscovered(urls, links) ==
    IF links = <<>> THEN urls
    ELSE AddDiscovered(
             IF InList(Head(links).url, urls) THEN urls
             ELSE Append(urls, Head(links).url),
             Tail(links))

\* the queue left as it is
QueueAfterCrawl_keeps(queue, url_index) == queue

\* lines 72-76: take the index off the processing queue
QueueAfterCrawl(queue, url_index) ==
    IF InList(url_index, queue) THEN ListRemove(queue, url_index) ELSE queue

\* d[key] = val on the order of the keys of d: a new key goes last
KeysAfterSet(keys, key) == IF InList(key, keys) THEN keys ELSE Append(keys, key)

\* every result stored, failed fetches too
StoresPage_always(exec_res) == TRUE

\* line 84: whether the page is stored and its links are merged
StoresPage(exec_res) == Truthy(exec_res.content)

\* CrawlAndExtract.post
CrawlAndExtract_post ==
    /\ pc = "CrawlAndExtract.post"
    /\ IF crawl_res = NoCrawl
       THEN UNCHANGED <<urls_to_process, visited_urls, url_content,
                        url_content_keys, all_discovered_urls>>
       ELSE /\ urls_to_process' = QueueAfterCrawl(urls_to_process, crawl_res.url_index)
            /\ visited_urls' = visited_urls \cup {crawl_res.url_index}
            /\ IF StoresPage(crawl_res)
               THEN /\ url_content' =
                          DictSet(url_content, crawl_res.url_index,
                                  [url |-> crawl_res.url, title |-> crawl_res.title,
                                   content |-> crawl_res.content])
                    /\ url_content_keys' =
                          KeysAfterSet(url_content_keys, crawl_res.url_index)
                    /\ all_discovered_urls' =
                          AddDiscovered(all_discovered_urls, crawl_res.links)
               ELSE UNCHANGED <<url_content, url_content_keys, all_discovered_urls>>
    /\ last_action' = "agent_decide"
    /\ pc' = get_next_node("CrawlAndExtract", "agent_decide")
    /\ crawl_res' = NoCrawl
    /\ UNCHANGED <<user_question, question_keywords, final_answer, response_case,
                   decision, draft, prompt, response, requested_action,
                   fetch_status, error, crawl_cycles, fetch_calls, llm_calls, runs, helpers, endpoint>>

-----------------------------------------------------------------------------
(* nodes.py: AgentDecision *)

TruncateLimit == 500

AvailableLimit == 10

\* the indices of a list, in order
Indices(list) == [i \in 1..Len(list) |-> i - 1]

IsUnvisited(i) == i \notin visited_urls

\* AgentDecision.prep
AgentPrep ==
    LET collected_info ==
            [k \in 1..Len(url_content_keys) |->
                LET content_data == url_content[url_content_keys[k]]
                IN  [url |-> content_data.url, title |-> content_data.title,
                     content |-> Prefix(content_data.content, TruncateLimit)]]
        unvisited ==
            IF all_discovered_urls # <<>> /\ visited_urls # {}
            THEN SelectSeq(Indices(all_discovered_urls), IsUnvisited)
            ELSE <<>>
        available_links ==
            [k \in 1..Len(unvisited) |->
                [url |-> all_discovered_urls[unvisited[k] + 1],
                 text |-> all_discovered_urls[unvisited[k] + 1]]]
    IN  [question |-> user_question,
         keywords |-> question_keywords,
         collected_info |-> collected_info,
         available_links |-> Prefix(available_links, AvailableLimit),
         visited_count |-> Cardinality(visited_urls),
         pending_urls |-> Len(urls_to_process)]

\* str(n) for n >= 0
Digits == <<"0", "1", "2", "3", "4", "5", "6", "7", "8", "9">>

RECURSIVE IntText(_)
IntText(n) ==
    IF n < 10 THEN <<Digits[n + 1]>>
    ELSE IntText(n \div 10) \o <<Digits[(n % 10) + 1]>>

\* line 157: the links the prompt lists
PromptLinkLimit == 5

\* lines 152-155: one entry per page collected, joined by newlines
InfoSummary(collected_info) ==
    Join([k \in 1..Len(collected_info) |->
             <<"Page: ">> \o collected_info[k].title \o <<" (">>
                 \o collected_info[k].url \o <<")", "\n", "Content: ">>
                 \o collected_info[k].content \o <<"\n">>],
         <<"\n">>)

\* line 157
AvailableUrls(available_links) ==
    LET listed == Prefix(available_links, PromptLinkLimit)
    IN  Join([k \in 1..Len(listed) |-> <<"- ">> \o listed[k].url], <<"\n">>)

\* lines 159-190: the prompt of AgentDecision.exec; the fixed passages are one
\* symbol each, the fence of the yaml example is the symbol "fence_yaml"
DecisionPrompt(prep_res) ==
    LET info_summary == InfoSummary(prep_res.collected_info)
        available_urls == AvailableUrls(prep_res.available_links)
    IN  <<"\nYou are a web research agent. Analyze the current situation and decide the next action.\n",
          "\n", "QUESTION: ">>
        \o prep_res.question
        \o <<"\n", "\n", "INFORMATION COLLECTED SO FAR:", "\n">>
        \o (IF info_summary # <<>> THEN info_summary
            ELSE <<"No information collected yet.">>)
        \o <<"\n", "\n", "AVAILABLE URLS TO EXPLORE:", "\n">>
        \o (IF available_urls # <<>> THEN available_urls
            ELSE <<"No more URLs available.">>)
        \o <<"\n", "\n", "CURRENT STATUS:", "\n", "- Pages visited: ">>
        \o IntText(prep_res.visited_count)
        \o <<"\n", "- Available unvisited URLs: ">>
        \o IntText(Len(prep_res.available_links))
        \o <<"\n", "\n", "DECISION CRITERIA: ...", "\n", "\n",
             "Choose your action and provide reasoning:", "\n", "\n",
             "fence_yaml", "\n", "action: explore  # or \"answer\"", "\n",
             "reasoning: | ...", "\n", "next_url: | ...", "\n", "fence">>

\* 'not prep_res' of a dict: true of the empty dict only
IsEmptyDict(d) == DOMAIN d = {}

NoDataDecision ==
    DictSet(DictSet(<<>>, "action", Str(<<"answer">>)),
            "reason", Str(<<"No data to process">>))

\* whether AgentDecision.exec returns before it calls the model
SkipsModelCall(prep_res) == IsEmptyDict(prep_res)

\* AgentDecision.prep and .exec, the call of the model returning a completion,
\* one of responses
AgentDecision_call(responses) ==
    /\ pc = "AgentDecision"
    /\ IF SkipsModelCall(AgentPrep)
       THEN /\ decision' = NoDataDecision
            /\ response_case' = "none"
            /\ llm_calls' = llm_calls
            /\ UNCHANGED <<prompt, response>>
       ELSE /\ prompt' = DecisionPrompt(AgentPrep)
            /\ \E resp \in responses :
                   /\ response' = resp
                   /\ decision' = ParseDecision(resp)
                   /\ response_case' = ResponseCase(resp)
            /\ llm_calls' = llm_calls + 1
    /\ pc' = "AgentDecision.post"
    /\ UNCHANGED <<shared, crawl_res, draft, last_action, requested_action,
                   fetch_status, error, crawl_cycles, fetch_calls, runs, helpers, endpoint>>

AgentDecision_exec == AgentDecision_call(Responses)

\* the node run again after a failed call
AfterCallFailure_retry == "AgentDecision"

\* where an exception of call_llm leaves the run: Node retries once at most
\* (max_retries = 1), so the exception leaves Flow.run
AfterCallFailure == "error"

\* AgentDecision.exec, the call of the model raising
AgentDecision_call_fails ==
    /\ pc = "AgentDecision"
    /\ ~SkipsModelCall(AgentPrep)
    /\ prompt' = DecisionPrompt(AgentPrep)
    /\ llm_calls' = llm_calls + 1
    /\ error' = "call_llm"
    /\ pc' = AfterCallFailure
    /\ UNCHANGED <<shared, crawl_res, response_case, decision, draft, response,
                   last_action, requested_action, fetch_status, crawl_cycles,
                   fetch_calls, runs, helpers, endpoint>>

\* exec_res.get(key, default)
DictGet(d, key, default) == IF key \in DOMAIN d THEN d[key] ELSE default

\* lines 228-232: the first index whose URL holds next_url or is held by it;
\* -1 for None
FindNextUrlIndex(next_url, urls) ==
    LET hits == {i \in 0..(Len(urls) - 1) :
                    IsSubstr(next_url, urls[i + 1]) \/ IsSubstr(urls[i + 1], next_url)}
    IN  IF hits = {} THEN -1 ELSE CHOOSE i \in hits : \A j \in hits : i <= j

\* no more than 5 pages visited in a run
CanExplore_capped(next_url_index) ==
    /\ next_url_index # -1
    /\ next_url_index \notin visited_urls
    /\ ~InList(next_url_index, urls_to_process)
    /\ Cardinality(visited_urls) < 5

\* the visited set not consulted
CanExplore_ignoresVisited(next_url_index) ==
    /\ next_url_index # -1
    /\ ~InList(next_url_index, urls_to_process)

\* line 238: whether the index found goes on the queue
CanExplore(next_url_index) ==
    /\ next_url_index # -1
    /\ next_url_index \notin visited_urls
    /\ ~InList(next_url_index, urls_to_process)

DecidedAction == DictGet(decision, "action", Str(<<"answer">>))

RawNextUrl == DictGet(decision, "next_url", Str(<<>>))

\* AgentDecision.post, returning "explore" or "answer"
AgentDecision_post ==
    /\ pc = "AgentDecision.post"
    /\ IF DecidedAction = Str(<<"explore">>)
       THEN /\ RawNextUrl.type = "str"
            /\ LET next_url == Strip(RawNextUrl.s)
                   next_url_index == FindNextUrlIndex(next_url, all_discovered_urls)
               IN  IF CanExplore(next_url_index)
                   THEN /\ urls_to_process' = Append(urls_to_process, next_url_index)
                        /\ last_action' = "explore"
                   ELSE /\ urls_to_process' = urls_to_process
                        /\ last_action' = "answer"
       ELSE /\ urls_to_process' = urls_to_process
            /\ last_action' = "answer"
    /\ pc' = get_next_node("AgentDecision", last_action')
    /\ requested_action' = IF DecidedAction = Str(<<"explore">>) THEN "explore"
                            ELSE "answer"
    /\ decision' = EmptyDict
    /\ response_case' = "none"
    /\ prompt' = None
    /\ response' = None
    /\ UNCHANGED <<user_question, question_keywords, visited_urls, url_content,
                   url_content_keys, all_discovered_urls, final_answer, crawl_res,
                   draft, fetch_status, error, crawl_cycles, fetch_calls,
                   llm_calls, runs, helpers, endpoint>>

\* AgentDecision.post, line 224: .strip() on a next_url that is no str raises
\* AttributeError, which leaves Flow.run
AgentDecision_post_raises ==
    /\ pc = "AgentDecision.post"
    /\ DecidedAction = Str(<<"explore">>)
    /\ RawNextUrl.type # "str"
    /\ error' = "AttributeError"
    /\ pc' = "error"
    /\ requested_action' = "explore"
    /\ UNCHANGED <<shared, crawl_res, response_case, decision, draft, prompt,
                   response, last_action, fetch_status, crawl_cycles, fetch_calls,
                   llm_calls, runs, helpers, endpoint>>

-----------------------------------------------------------------------------
(* nodes.py: DraftAnswer *)

NoInformation == <<"I couldn't find any information to answer your question.">>

NoRelevantInformation ==
    <<"I couldn't find any relevant information on the website to answer your question.">>

\* the contents cut as they are for the Decision Step
DraftPrep_truncated ==
    [question |-> user_question,
     content |-> [k \in 1..Len(url_content_keys) |->
                    LET content_data == url_content[url_content_keys[k]]
                    IN  [url |-> content_data.url, title |-> content_data.title,
                         content |-> Prefix(content_data.content, TruncateLimit)]]]

\* DraftAnswer.prep
DraftPrep ==
    [question |-> user_question,
     content |-> [k \in 1..Len(url_content_keys) |->
                    LET content_data == url_content[url_content_keys[k]]
                    IN  [url |-> content_data.url, title |-> content_data.title,
                         content |-> content_data.content]]]

\* lines 282-286: one part per page, joined by a rule
FullContext(content) ==
    Join([k \in 1..Len(content) |->
             <<"From ">> \o content[k].title \o <<" (">> \o content[k].url
                 \o <<"):", "\n">> \o content[k].content \o <<"\n">>],
         <<"\n", "---", "\n">>)

\* lines 288-298: the prompt of DraftAnswer.exec
DraftPrompt(prep_res) ==
    <<"\nBased on the information I gathered from the website, please provide a comprehensive answer to the user's question.\n",
      "\n", "QUESTION: ">>
    \o prep_res.question
    \o <<"\n", "\n", "INFORMATION FROM WEBSITE:", "\n">>
    \o FullContext(prep_res.content)
    \o <<"\n", "\n", "Please provide a helpful, accurate answer ...", "\n", "\n",
         "ANSWER:">>

\* the completion not handed on: exec ends without a return value
DraftResult_dropped(completion) == None

\* line 300: return call_llm(prompt)
DraftResult(completion) == completion

\* no fixed answer for an empty list of pages
FixedAnswer_onlyEmptyPrep(prep_res) ==
    IF IsEmptyDict(prep_res) THEN NoInformation ELSE None

\* the answer DraftAnswer.exec gives without calling the model, or None
FixedAnswer(prep_res) ==
    IF IsEmptyDict(prep_res) THEN NoInformation
    ELSE IF DOMAIN prep_res.content = {} THEN NoRelevantInformation
    ELSE None

\* DraftAnswer.prep and .exec, the call of the model (if any) returning
DraftAnswer_exec ==
    /\ pc = "DraftAnswer"
    /\ IF FixedAnswer(DraftPrep) # None
       THEN /\ draft' = FixedAnswer(DraftPrep)
            /\ llm_calls' = llm_calls
            /\ UNCHANGED <<prompt, response>>
       ELSE /\ prompt' = DraftPrompt(DraftPrep)
            /\ \E answer \in AnswerTexts :
                   /\ response' = answer
                   /\ draft' = DraftResult(answer)
            /\ llm_calls' = llm_calls + 1
    /\ pc' = "DraftAnswer.post"
    /\ UNCHANGED <<shared, crawl_res, response_case, decision, last_action,
                   requested_action, fetch_status, error, crawl_cycles, fetch_calls,
                   runs, helpers, endpoint>>

\* DraftAnswer.exec, the call of the model raising
DraftAnswer_call_fails ==
    /\ pc = "DraftAnswer"
    /\ FixedAnswer(DraftPrep) = None
    /\ prompt' = DraftPrompt(DraftPrep)
    /\ llm_calls' = llm_calls + 1
    /\ error' = "call_llm"
    /\ pc' = AfterCallFailure
    /\ UNCHANGED <<shared, crawl_res, response_case, decision, draft, response,
                   last_action, requested_action, fetch_status, crawl_cycles,
                   fetch_calls, runs, helpers, endpoint>>

\* DraftAnswer.post: returns None, for which the flow has no successor
DraftAnswer_post ==
    /\ pc = "DraftAnswer.post"
    /\ final_answer' = draft
    /\ last_action' = "default"
    /\ pc' = get_next_node("DraftAnswer", "default")
    /\ prompt' = None
    /\ response' = None
    /\ UNCHANGED <<user_question, question_keywords, urls_to_process, visited_urls,
                   url_content, url_content_keys, all_discovered_urls, crawl_res,
                   response_case, decision, draft, requested_action, fetch_status,
                   error, crawl_cycles, fetch_calls, llm_calls, runs, helpers, endpoint>>

-----------------------------------------------------------------------------

Next ==
    \/ CrawlAndExtract_exec
    \/ CrawlAndExtract_post
    \/ AgentDecision_exec
    \/ AgentDecision_call_fails
    \/ AgentDecision_post
    \/ AgentDecision_post_raises
    \/ DraftAnswer_exec
    \/ DraftAnswer_call_fails
    \/ DraftAnswer_post

Spec == Init /\ [][Next]_vars

\* the flow runs its nodes one after the other without pause
FairSpec == Spec /\ WF_vars(Next)

-----------------------------------------------------------------------------
(* Two calls of run_chatbot, one after the other or interleaved.  The call   *)
(* that executes holds its dict and its locals in the variables above; a     *)
(* call that waits has its locals in `suspended`, and the items of its dict  *)
(* are in `stores` under the dict object's identity.                         *)

\* the items of the dict of the executing call
Items ==
    [user_question |-> user_question, question_keywords |-> question_keywords,
     urls_to_process |-> urls_to_process, visited_urls |-> visited_urls,
     url_content |-> url_content, url_content_keys |-> url_content_keys,
     all_discovered_urls |-> all_discovered_urls, final_answer |-> final_answer]

\* what the executing call holds besides
Locals ==
    [pc |-> pc, crawl_res |-> crawl_res, response_case |-> response_case,
     decision |-> decision, draft |-> draft, prompt |-> prompt,
     response |-> response, last_action |-> last_action,
     requested_action |-> requested_action, fetch_status |-> fetch_status,
     error |-> error, crawl_cycles |-> crawl_cycles, fetch_calls |-> fetch_calls,
     llm_calls |-> llm_calls]

\* initialize_shared_store(user_question, base_url): the items of the dict
InitialItems(question, base_url) ==
    [user_question |-> question,
     question_keywords |-> extract_question_keywords(question),
     urls_to_process |-> <<0>>, visited_urls |-> {},
     url_content |-> EmptyDict, url_content_keys |-> <<>>,
     all_discovered_urls |-> <<base_url>>, final_answer |-> None]

\* a flow about to run its start node
InitialLocals ==
    [pc |-> "CrawlAndExtract", crawl_res |-> NoCrawl, response_case |-> "none",
     decision |-> EmptyDict, draft |-> None, prompt |-> None, response |-> None,
     last_action |-> "none", requested_action |-> "none", fetch_status |-> "none",
     error |-> "none", crawl_cycles |-> 0, fetch_calls |-> 0, llm_calls |-> 0]

\* the executing call goes on with these items and these locals
Resume(items, locals) ==
    /\ user_question' = items.user_question
    /\ question_keywords' = items.question_keywords
    /\ urls_to_process' = items.urls_to_process
    /\ visited_urls' = items.visited_urls
    /\ url_content' = items.url_content
    /\ url_content_keys' = items.url_content_keys
    /\ all_discovered_urls' = items.all_discovered_urls
    /\ final_answer' = items.final_answer
    /\ pc' = locals.pc
    /\ crawl_res' = locals.crawl_res
    /\ response_case' = locals.response_case
    /\ decision' = locals.decision
    /\ draft' = locals.draft
    /\ prompt' = locals.prompt
    /\ response' = locals.response
    /\ last_action' = locals.last_action
    /\ requested_action' = locals.requested_action
    /\ fetch_status' = locals.fetch_status
    /\ error' = locals.error
    /\ crawl_cycles' = locals.crawl_cycles
    /\ fetch_calls' = locals.fetch_calls
    /\ llm_calls' = locals.llm_calls

\* the executing call stops executing: its dict keeps the items it has, the
\* call keeps its locals (and, for the properties, the items it last saw)
WrittenBack == DictSet(stores, store_of[active], Items)

Suspended == DictSet(suspended, active, [locals |-> Locals, seen |-> Items])

Without(d, key) == [k \in DOMAIN d \ {key} |-> d[k]]

\* run_chatbot(user_question, base_url) called while another call is under
\* way or finished: a dict from initialize_shared_store, a flow from
\* create_chatbot_flow, and the flow started
StartRun ==
    \E call \in Calls \ DOMAIN store_of, question \in Questions,
       base_url \in SeedUrls :
        /\ store_of' = DictSet(store_of, call, NewStore(call))
        /\ stores' = Without(WrittenBack, store_of'[call])
        /\ suspended' = Suspended
        /\ active' = call
        /\ Resume(InitialItems(question, base_url), InitialLocals)
        /\ UNCHANGED <<helpers, endpoint>>

\* the executing call gives way to a waiting one, which goes on from where it
\* stopped, on the dict it holds
SwitchRun ==
    \E call \in DOMAIN suspended :
        /\ stores' = Without(WrittenBack, store_of[call])
        /\ suspended' = Without(Suspended, call)
        /\ active' = call
        /\ Resume(WrittenBack[store_of[call]], suspended[call].locals)
        /\ UNCHANGED <<store_of, helpers, endpoint>>

\* a fetch that failed, or brought a page with a title and the text on
\* refunds, with no link or with the link to one page
CrawlAndExtract_exec_few ==
    /\ CrawlAndExtract_exec
    /\ crawl_res'.title \in {None, <<"T">>}
    /\ (crawl_res'.content # None)
          => IsSubstr(<<"R", "e", "f", "u", "n", "d">>, crawl_res'.content)
    /\ \A k \in 1..Len(crawl_res'.links) :
          k = 1 /\ crawl_res'.links[k].url = Url_a

\* a completion out of three: an answer, an explore with a URL and one with
\* none
AgentDecision_exec_few ==
    /\ AgentDecision_exec
    /\ response' \in
          { <<FenceYaml, Entry("action", Str(<<"answer">>)), Fence>>,
            <<FenceYaml, Entry("action", Str(<<"explore">>)),
              Entry("next_url", Str(Url_a)), Fence>>,
            <<FenceYaml, Entry("action", Str(<<"explore">>)),
              Entry("next_url", Null), Fence>> }

RunsNext ==
    \/ CrawlAndExtract_exec_few
    \/ CrawlAndExtract_post
    \/ AgentDecision_exec_few
    \/ AgentDecision_call_fails
    \/ AgentDecision_post
    \/ AgentDecision_post_raises
    \/ DraftAnswer_exec
    \/ DraftAnswer_call_fails
    \/ DraftAnswer_post
    \/ StartRun
    \/ SwitchRun

\* the first call is about refunds, from a seed that is no prefix of its
\* pages; the second call has any question and any seed
RunsInit ==
    /\ Init
    /\ user_question # <<"W", "h", "o", " ", "i", "s", " ", "i", "t", "?">>
    /\ all_discovered_urls = <<Url_index>>

RunsSpec == RunsInit /\ [][RunsNext]_vars

-----------------------------------------------------------------------------
(* The Decision Step and the Answer Step on larger stores: runs taken up at  *)
(* the Decision Step, after crawl cycles that brought long pages and many    *)
(* links                                                                     *)

\* a page text of n characters with no sentence in it
Long(n) == [i \in 1..n |-> "x"]

\* a discovery list of n URLs: the seed, then the pages it links to
ManyUrls(n) ==
    [i \in 1..n |-> IF i = 1 THEN Url_index
                    ELSE <<"https://", "d", "/", "p">> \o IntText(i - 1)]

\* the lengths of the discovery list: below, between and above the limits on
\* the links listed
ListLengths == {1, 2, 3, 7, 12}

\* the text stored for the seed: short, at the limit of the Decision Step's
\* cut, and one character above it
SeedContents == {Text_refund, Long(TruncateLimit), Long(TruncateLimit + 1)}

\* the crawl cycles so far: the indices visited, the keys of the page records
\* in the order they were stored (a fetch that failed stores none)
Crawled ==
    { [visited |-> {0},       keys |-> <<>>],
      [visited |-> {0},       keys |-> <<0>>],
      [visited |-> {0, 1},    keys |-> <<0, 1>>],
      [visited |-> {0, 2},    keys |-> <<0>>],
      [visited |-> {0, 1, 2}, keys |-> <<0, 2, 1>>] }

PromptInit ==
    \E question \in Questions, n \in ListLengths, crawled \in Crawled,
       seed_content \in SeedContents :
        /\ crawled.visited \subseteq 0..(n - 1)
        /\ (crawled.keys = <<>>) => (n = 1 /\ seed_content = Text_refund)
        /\ user_question = question
        /\ question_keywords = extract_question_keywords(question)
        /\ urls_to_process = <<>>
        /\ visited_urls = crawled.visited
        /\ url_content_keys = crawled.keys
        /\ url_content =
              [i \in {crawled.keys[k] : k \in 1..Len(crawled.keys)} |->
                  [url |-> ManyUrls(n)[i + 1], title |-> <<"T">>,
                   content |-> IF i = 0 THEN seed_content ELSE Text_refund]]
        /\ all_discovered_urls = ManyUrls(n)
        /\ final_answer = None
        /\ pc = "AgentDecision"
        /\ crawl_res = NoCrawl
        /\ response_case = "none"
        /\ decision = EmptyDict
        /\ draft = None
        /\ prompt = None
        /\ response = None
        /\ last_action = "agent_decide"
        /\ requested_action =
              IF Cardinality(crawled.visited) = 1 THEN "none" ELSE "explore"
        /\ fetch_status =
              IF Cardinality(crawled.visited) = Len(crawled.keys) THEN "ok"
              ELSE "failed"
        /\ error = "none"
        /\ crawl_cycles = Cardinality(crawled.visited)
        /\ fetch_calls = Cardinality(crawled.visited)
        /\ llm_calls = Cardinality(crawled.visited) - 1
        /\ active = "first"
        /\ store_of = DictSet(EmptyDict, "first", NewStore("first"))
        /\ stores = EmptyDict
        /\ suspended = EmptyDict
        /\ Direct

\* the flow from the Decision Step on, up to the next Crawl Step
PromptNext ==
    \/ AgentDecision_exec
    \/ AgentDecision_call_fails
    \/ AgentDecision_post
    \/ AgentDecision_post_raises
    \/ DraftAnswer_exec
    \/ DraftAnswer_call_fails
    \/ DraftAnswer_post

PromptSpec == PromptInit /\ [][PromptNext]_vars

-----------------------------------------------------------------------------
(* The helpers of utils/ called on their own, as the main blocks of          *)
(* url_utils.py and web_scraper.py and test_utilities() call them: no run    *)
(* is under way, `called` holds the helper and its arguments, `returned`     *)
(* what it gave back.                                                        *)

\* no call of run_chatbot has been made: there is no store and no flow
Unstarted ==
    /\ user_question = None
    /\ question_keywords = <<>>
    /\ urls_to_process = <<>>
    /\ visited_urls = {}
    /\ url_content = EmptyDict
    /\ url_content_keys = <<>>
    /\ all_discovered_urls = <<>>
    /\ final_answer = None
    /\ crawl_res = NoCrawl
    /\ response_case = "none"
    /\ decision = EmptyDict
    /\ draft = None
    /\ prompt = None
    /\ response = None
    /\ last_action = "none"
    /\ requested_action = "none"
    /\ fetch_status = "none"
    /\ error = "none"
    /\ crawl_cycles = 0
    /\ fetch_calls = 0
    /\ llm_calls = 0
    /\ active = "first"
    /\ store_of = EmptyDict
    /\ stores = EmptyDict
    /\ suspended = EmptyDict

Returned(value) == [done |-> TRUE, value |-> value]

\* the words of the questions: stop words and short words in several cases,
\* words with punctuation in them and around them, a word with an underscore
QuestionWords ==
    { <<"H","o","w">>, <<"D","O">>, <<"I">>, <<"a">>, <<"g","e","t">>,
      <<"R","e","f","u","n","d","?">>, <<"r","e","f","u","n","d">>,
      <<"i","t","'","s">>, <<"I","'","m">>, <<"-","-">>, <<"o","n",".">>,
      <<"o","_","k">>, <<"w","h","o","-">> }

\* what stands between two words, before the first and after the last
Gaps == { <<" ">>, <<" ", " ">>, <<"\t">> }

\* the questions of the runs, and questions of no word, one word and two words
HelperQuestions ==
    Questions
    \cup { <<>>, <<" ">> }
    \cup QuestionWords
    \cup { w \o <<" ">> : w \in QuestionWords }
    \cup { g \o w : g \in Gaps, w \in QuestionWords }
    \cup { w1 \o g \o w2 : w1 \in QuestionWords, g \in Gaps, w2 \in QuestionWords }

QuestionCalls ==
    { [fn |-> "extract_question_keywords", question |-> q] : q \in HelperQuestions }

\* keywords = extract_question_keywords(test_question)
Call_extract_question_keywords ==
    /\ called.fn = "extract_question_keywords"
    /\ ~returned.done
    /\ returned' = Returned(extract_question_keywords(called.question))
    /\ UNCHANGED <<shared, frame, runs, called, endpoint>>

\* links to pages: with a question word in the path and in the text, with
\* none, with a helpful word only, with the question word in the query only,
\* in upper case, and in the domain only
Url_policy  == <<"https://", "d", "/", "r","e","f","u","n","d", "-",
                 "p","o","l","i","c","y", ".", "h","t","m","l">>
Url_help    == <<"https://", "d", "/", "h","e","l","p">>
Url_query   == <<"https://", "d", "/", "x", "?", "r","e","f","u","n","d">>
Url_Refund  == <<"https://", "d", "/", "i","n","d","e","x", "/", "R","e","f","u","n","d">>
Url_domain  == <<"https://", "r","e","f","u","n","d", ".", "d", "/", "i">>

CandidateLinks ==
    { [url |-> Url_policy, text |-> <<"R","e","f","u","n","d">>],
      [url |-> Url_a,      text |-> <<"g","o">>],
      [url |-> Url_help,   text |-> <<"H","e","l","p">>],
      [url |-> Url_query,  text |-> <<"I","n","f","o">>],
      [url |-> Url_Refund, text |-> <<"A","b","o","u","t">>],
      [url |-> Url_domain, text |-> <<"g","o">>] }

\* the most links in a list handed to find_relevant_urls
MaxRanked == 3

LinkLists == UNION { [1..n -> CandidateLinks] : n \in 0..MaxRanked }

\* no keyword, one, one twice, one in upper case, a part of a word, two
KeywordLists ==
    { <<>>,
      << <<"r","e","f","u","n","d">> >>,
      << <<"r","e","f","u","n","d">>, <<"r","e","f","u","n","d">> >>,
      << <<"R","e","f","u","n","d">> >>,
      << <<"f","u","n">> >>,
      << <<"g","e","t">>, <<"h","e","l","p">> >> }

RankCalls ==
    { [fn |-> "find_relevant_urls", links |-> l, question_keywords |-> k] :
          l \in LinkLists, k \in KeywordLists }

\* relevant = find_relevant_urls(test_links, keywords)
Call_find_relevant_urls ==
    /\ called.fn = "find_relevant_urls"
    /\ ~returned.done
    /\ returned' = Returned(find_relevant_urls(called.links, called.question_keywords))
    /\ UNCHANGED <<shared, frame, runs, called, endpoint>>

\* the page text of the spec's scenario; a text with the keyword in two units,
\* once in mixed case; texts with no unit of the keywords, at the limit of
\* the cut and one character above it
Text_scenario ==
    <<"A","."," ","B"," ","h","a","s"," ","r","e","f","u","n","d"," ",
      "i","n","f","o","."," ","C",".">>

Text_twice ==
    <<"R","e","F","u","n","D"," ","a","."," ","x","."," ",
      "r","e","f","u","n","d"," ","b">>

PageTexts ==
    { <<>>, Text_refund, Text_scenario, Text_twice,
      Long(RelevantLimit), Long(RelevantLimit + 1) }

ContentKeywords ==
    { <<>>,
      << <<"r","e","f","u","n","d">> >>,
      << <<"R","e","f","u","n","d">> >>,
      << <<"g","e","t">>, <<"r","e","f","u","n","d">> >>,
      << <<"g","e","t">> >> }

ContentCalls ==
    { [fn |-> "extract_relevant_content", content |-> c, keywords |-> k] :
          c \in PageTexts, k \in ContentKeywords }

\* relevant_content = extract_relevant_content(result["content"], question_keywords)
Call_extract_relevant_content ==
    /\ called.fn = "extract_relevant_content"
    /\ ~returned.done
    /\ returned' = Returned(extract_relevant_content(called.content, called.keywords))
    /\ UNCHANGED <<shared, frame, runs, called, endpoint>>

\* n anchors, each to a page of its own on the site
AnchorsTo(n) ==
    [i \in 1..n |-> [tag |-> "a", text |-> <<"g","o">>, href |-> ManyUrls(n + 1)[i + 1]]]

\* a text block of n characters
TextBlock(n) == <<[tag |-> "p", text |-> Long(n), href |-> None]>>

\* pages at the limits of the fetcher and above them: the text that is left
\* and the links that are kept, at the limit, and one above it with a link
\* to another site before them
LargeBodies ==
    { TextBlock(ContentLimit) \o AnchorsTo(LinkLimit),
      TextBlock(ContentLimit + 1)
         \o <<[tag |-> "a", text |-> <<"g","o">>, href |-> Url_other]>>
         \o AnchorsTo(LinkLimit + 1) }

LargeOutcomes ==
    { [kind |-> "page", title |-> [tag |-> TRUE, string |-> <<"T", " ">>],
       body |-> b] : b \in LargeBodies }

FetchCalls ==
    { [fn |-> "scrape_website", url |-> u, outcome |-> o] :
          u \in SeedUrls, o \in FetchOutcomes \cup LargeOutcomes }

\* result = scrape_website(test_url)
Call_scrape_website ==
    /\ called.fn = "scrape_website"
    /\ ~returned.done
    /\ returned' = Returned(scrape_website(called.url, called.outcome))
    /\ UNCHANGED <<shared, frame, runs, called, endpoint>>

HelperCalls == QuestionCalls \cup RankCalls \cup ContentCalls \cup FetchCalls

HelperInit ==
    /\ Unstarted
    /\ pc = "none"
    /\ called \in HelperCalls
    /\ returned = NotReturned
    /\ request = NoRequest
    /\ reply = NoReply

HelperNext ==
    \/ Call_extract_question_keywords
    \/ Call_find_relevant_urls
    \/ Call_extract_relevant_content
    \/ Call_scrape_website

HelperSpec == HelperInit /\ [][HelperNext]_vars

-----------------------------------------------------------------------------
(* A run on a site whose seed page links to more pages than the decision     *)
(* policy of the prompt advises to visit, with a model that may go on        *)
(* choosing explore                                                          *)

\* the pages the seed page links to
WalkLinks == 5

\* the site: the seed page with its links, pages with text and no link, and
\* pages that fail
WalkOutcomes ==
    { [kind |-> "RequestException", title |-> NoTitleTag, body |-> <<>>],
      [kind |-> "page", title |-> [tag |-> TRUE, string |-> <<"T", " ">>],
       body |-> <<[tag |-> "p", text |-> Text_refund, href |-> None]>>
                \o AnchorsTo(WalkLinks)],
      [kind |-> "page", title |-> [tag |-> TRUE, string |-> <<"T", " ">>],
       body |-> <<[tag |-> "p", text |-> Text_refund, href |-> None]>>] }

\* the completions: answer, or explore with the URL of one of the pages
WalkResponses ==
    { <<FenceYaml, Entry("action", Str(<<"answer">>)), Fence>> }
    \cup { <<FenceYaml, Entry("action", Str(<<"explore">>)),
             Entry("next_url", Str(ManyUrls(WalkLinks + 1)[i])), Fence>> :
               i \in 2..(WalkLinks + 1) }

\* the fetch of the seed page brings its links; the fetch of another page
\* fails or brings a page with no link
CrawlAndExtract_exec_walk ==
    /\ CrawlAndExtract_fetch(WalkOutcomes)
    /\ (crawl_res'.url_index = 0) = (crawl_res'.links # <<>>)

AgentDecision_exec_walk == AgentDecision_call(WalkResponses)

WalkNext ==
    \/ CrawlAndExtract_exec_walk
    \/ CrawlAndExtract_post
    \/ AgentDecision_exec_walk
    \/ AgentDecision_call_fails
    \/ AgentDecision_post
    \/ DraftAnswer_exec
    \/ DraftAnswer_call_fails
    \/ DraftAnswer_post

\* a question about refunds, asked of the seed page of the site
WalkInit ==
    /\ Init
    /\ question_keywords # <<>>
    /\ all_discovered_urls = <<Url_index>>

WalkSpec == WalkInit /\ [][WalkNext]_vars

-----------------------------------------------------------------------------
(* main.py: the chat endpoint, from the request to the reply, around one     *)
(* call of run_chatbot                                                       *)

\* the questions and website URLs of the requests: empty, of whitespace only,
\* and filled in; a URL with its protocol and without it
RequestQuestions ==
    { <<>>, <<" ">>,
      <<"H","o","w"," ","d","o"," ","I"," ","g","e","t"," ","a"," ",
        "r","e","f","u","n","d","?">> }

RequestUrls == { <<>>, <<" ", "\t">>, Url_index, <<"d", "/", "i">> }

Requests ==
    { [question |-> q, website_url |-> u] :
          q \in RequestQuestions, u \in RequestUrls }

\* website_url.startswith(('http://', 'https://'))
HasProtocol(url) == url # <<>> /\ Head(url) \in {"http://", "https://"}

\* lines 86-88: the URL handed to run_chatbot
WebsiteUrl(url) == IF HasProtocol(url) THEN url ELSE <<"https://">> \o url

\* lines 117-122: `except Exception` catches what the try block raises, the
\* HTTPException of the validation too, and raises an HTTPException of
\* status 500 in its place
HandlerStatus(status_code) == 500

\* lines 79-83: the HTTPException the validation raises, or none
Validation(req) ==
    IF Strip(req.question) = <<>>
    THEN [status_code |-> 400, body |-> <<"Question cannot be empty">>]
    ELSE IF Strip(req.website_url) = <<>>
    THEN [status_code |-> 400, body |-> <<"Website URL cannot be empty">>]
    ELSE NoReply

\* lines 74-91: the request validated and, if it passes, run_chatbot called:
\* the store initialised and the flow started
chat_endpoint_begin ==
    /\ pc = "chat_endpoint"
    /\ IF Validation(request) # NoReply
       THEN /\ reply' = [status_code |-> HandlerStatus(Validation(request).status_code),
                         body |-> Validation(request).body]
            /\ pc' = "replied"
            /\ UNCHANGED <<shared, crawl_res, response_case, decision, draft,
                           prompt, response, last_action, requested_action,
                           fetch_status, error, crawl_cycles, fetch_calls,
                           llm_calls, store_of>>
       ELSE /\ Resume(InitialItems(request.question, WebsiteUrl(request.website_url)),
                      InitialLocals)
            /\ store_of' = DictSet(store_of, active, NewStore(active))
            /\ reply' = reply
    /\ UNCHANGED <<active, stores, suspended, helpers, request>>

\* lines 98-106: the pages visited that have a record
ExploredUrls ==
    {[url |-> url_content[i].url, title |-> url_content[i].title] :
        i \in visited_urls \cap DOMAIN url_content}

\* lines 93-122: run_chatbot returned or raised, and the reply is made
chat_endpoint_end ==
    /\ pc \in {"done", "error"}
    /\ request # NoRequest
    /\ reply' =
          IF pc = "error" \/ final_answer = None
          THEN [status_code |-> HandlerStatus(500), body |-> <<"An error occurred">>]
          ELSE [status_code |-> 200,
                body |-> [answer |-> final_answer, status |-> "success",
                          pages_visited |-> Cardinality(visited_urls),
                          urls_explored |-> ExploredUrls]]
    /\ pc' = "replied"
    /\ UNCHANGED <<shared, crawl_res, response_case, decision, draft, prompt,
                   response, last_action, requested_action, fetch_status, error,
                   crawl_cycles, fetch_calls, llm_calls, runs, helpers, request>>

ChatInit ==
    /\ Unstarted
    /\ pc = "chat_endpoint"
    /\ called = NoCall
    /\ returned = NotReturned
    /\ request \in Requests
    /\ reply = NoReply

ChatNext ==
    \/ chat_endpoint_begin
    \/ CrawlAndExtract_exec_few
    \/ CrawlAndExtract_post
    \/ AgentDecision_exec_few
    \/ AgentDecision_call_fails
    \/ AgentDecision_post
    \/ AgentDecision_post_raises
    \/ DraftAnswer_exec
    \/ DraftAnswer_call_fails
    \/ DraftAnswer_post
    \/ chat_endpoint_end

ChatSpec == ChatInit /\ [][ChatNext]_vars

-----------------------------------------------------------------------------
(* Properties *)

Explore == Str(<<"explore">>)

Answer == Str(<<"answer">>)

\* the indices whose URL holds the text or is held by it
Matching(text) ==
    {i \in 0..(Len(all_discovered_urls) - 1) :
        \/ IsSubstr(text, all_discovered_urls[i + 1])
        \/ IsSubstr(all_discovered_urls[i + 1], text)}

\* the decision in flight asks to explore, with a next_url that is text or
\* that is left out (read as the empty text)
ExploreWithText ==
    /\ pc = "AgentDecision.post"
    /\ DecidedAction = Explore
    /\ RawNextUrl.type = "str"

\* C1: a run never stops short of the Answer Step unless a model call failed,
\* and the number of crawl cycles never exceeds the number of discovered URLs
\* (so, the URLs of the site being finite, every run reaches the Answer Step
\* and stops).
C1_RunReachesAnswer ==
    /\ crawl_cycles <= Len(all_discovered_urls)
    /\ (pc = "done" \/ error = "call_llm" \/ ENABLED Next)

\* C2: no index is both pending and visited, and every index that is pending,
\* visited or keys a page record is smaller than the length of the discovery
\* list.
C2_FrontierInvariant ==
    /\ \A i \in visited_urls : ~InList(i, urls_to_process)
    /\ \A k \in 1..Len(urls_to_process) :
          urls_to_process[k] \in 0..(Len(all_discovered_urls) - 1)
    /\ visited_urls \subseteq 0..(Len(all_discovered_urls) - 1)
    /\ DOMAIN url_content \subseteq 0..(Len(all_discovered_urls) - 1)

\* an index waits on the queue while others are visited and stored
C2_Witness ==
    /\ pc = "CrawlAndExtract"
    /\ urls_to_process # <<>>
    /\ visited_urls # {}
    /\ DOMAIN url_content # {}

\* C3: when the decision is explore and next_url is the URL of a discovered
\* index that is neither visited nor pending, the Decision Step appends that
\* index, and nothing else, to the queue and emits explore; and the Crawl Step
\* that follows an explore fetches the URL of the index just queued.
C3_ExploreSelectsRequested ==
    [][ /\ \A i \in 0..(Len(all_discovered_urls) - 1) :
              ( /\ ExploreWithText
                /\ RawNextUrl.s = all_discovered_urls[i + 1]
                /\ i \notin visited_urls
                /\ ~InList(i, urls_to_process) )
              => ( /\ urls_to_process' = Append(urls_to_process, i)
                   /\ last_action' = "explore"
                   /\ pc' = "CrawlAndExtract" )
        /\ (pc = "CrawlAndExtract" /\ last_action = "explore")
              => LET queued == urls_to_process[Len(urls_to_process)]
                 IN  /\ crawl_res'.url_index = queued
                     /\ crawl_res'.url = all_discovered_urls[queued + 1]
      ]_vars

\* C4: when the decision is explore and no discovered URL is a substring or a
\* superstring of next_url, or the first index that is one is visited or
\* pending, the Decision Step emits answer and leaves the queue, the visited
\* set, the discovery list and the page records as they are.
C4_ExploreFallThrough ==
    [][ ( /\ ExploreWithText
          /\ LET hits == Matching(Strip(RawNextUrl.s))
             IN  \/ hits = {}
                 \/ \E i \in hits :
                       /\ \A j \in hits : i <= j
                       /\ (i \in visited_urls \/ InList(i, urls_to_process)) )
        => ( /\ last_action' = "answer"
             /\ pc' = "DraftAnswer"
             /\ UNCHANGED <<urls_to_process, visited_urls, all_discovered_urls,
                            url_content>> )
      ]_vars

\* the model asked to explore, the Decision Step answered instead
C4_Witness ==
    /\ pc = "DraftAnswer"
    /\ requested_action = "explore"
    /\ last_action = "answer"
    /\ Cardinality(visited_urls) < Len(all_discovered_urls)

\* C5: for a completion with no delimited block, with a block that does not
\* parse into fields, or with an action field that is missing or is neither
\* explore nor answer, the decision has action answer and the Decision Step
\* emits answer.
C5_ParseFailureAnswers ==
    [][ (pc = "AgentDecision.post"
            /\ response_case \in {"no_block", "no_fields", "no_action", "invalid_action"})
        => ( /\ "action" \in DOMAIN decision
             /\ decision["action"] = Answer
             /\ last_action' = "answer"
             /\ pc' = "DraftAnswer" )
      ]_vars

\* a completion whose action field is invalid was turned into an answer
C5_Witness ==
    /\ pc = "AgentDecision.post"
    /\ response_case = "invalid_action"
    /\ DecidedAction = Answer

\* C6: a run ends with a final answer or with the error of a failed model
\* call; no fetch outcome and no completion text ends it in another error.
C6_OnlyModelCallFailureIsFatal ==
    /\ error \in {"none", "call_llm"}
    /\ (pc = "error" => error = "call_llm")
    /\ (pc = "done" => final_answer # None)

\* C7: a failed model call ends the run in an error at that call: nothing runs
\* after it (no repeated call, no fetch, no model call) and no final answer is
\* recorded.
C7_ModelFailureIsFatal ==
    [][ /\ (error' = "call_llm" /\ error = "none")
              => ( /\ pc' = "error"
                   /\ llm_calls' = llm_calls + 1
                   /\ final_answer' = None )
        /\ (error = "call_llm")
              => ( /\ pc' = pc
                   /\ llm_calls' = llm_calls
                   /\ fetch_calls' = fetch_calls
                   /\ final_answer' = final_answer )
      ]_vars

\* the model call of the Answer Step failed
C7_Witness ==
    /\ pc = "error"
    /\ error = "call_llm"
    /\ last_action = "answer"
    /\ final_answer = None

\* C8: when the fetch fails, the Crawl Step takes the index off the queue,
\* adds it to the visited set, stores no page record, adds no URL to the
\* discovery list and goes on to the Decision Step.
C8_FetchFailureSwallowed ==
    [][ (pc = "CrawlAndExtract.post" /\ fetch_status = "failed")
        => ( /\ ~InList(crawl_res.url_index, urls_to_process')
             /\ Len(urls_to_process') = Len(urls_to_process) - 1
             /\ visited_urls' = visited_urls \cup {crawl_res.url_index}
             /\ url_content' = url_content
             /\ all_discovered_urls' = all_discovered_urls
             /\ pc' = "AgentDecision"
             /\ error' = "none" )
      ]_vars

\* the fetch of a page found on an earlier page failed, and was passed over
C8_Witness ==
    /\ pc = "AgentDecision"
    /\ fetch_status = "failed"
    /\ Cardinality(visited_urls) = 2
    /\ Cardinality(DOMAIN url_content) = 1

\* C9: after a fetch that returns without error, whatever text the page
\* holds, the Crawl Step has marked the index visited, stored a page record
\* under it, and every link URL returned is in the discovery list.
C9_SuccessfulFetchStored ==
    [][ (pc = "CrawlAndExtract.post" /\ fetch_status = "ok")
        => ( /\ crawl_res.url_index \in visited_urls'
             /\ crawl_res.url_index \in DOMAIN url_content'
             /\ \A k \in 1..Len(crawl_res.links) :
                   InList(crawl_res.links[k].url, all_discovered_urls') )
      ]_vars

\* C10: when the Decision Step runs with no page content collected and no
\* candidate link, it decides answer with a "No data" reasoning and makes no
\* model call.
C10_NoModelCallOnEmptyContext ==
    [][ ( /\ pc = "AgentDecision"
          /\ DOMAIN AgentPrep.collected_info = {}
          /\ AgentPrep.available_links = <<>> )
        => ( /\ llm_calls' = llm_calls
             /\ decision' = NoDataDecision )
      ]_vars

\* C11: in a run whose every fetch fails there is one fetch attempt and no
\* page record, and, unless a model call fails, the run goes on until it is
\* done, with the fixed no-information answer as its final answer and no model
\* call made by the Answer Step (the one call of the run is the Decision
\* Step's).
C11_FailingFetcherRun ==
    (fetch_calls = 1 /\ fetch_status = "failed")
    => ( /\ pc # "CrawlAndExtract"
         /\ DOMAIN url_content = {}
         /\ (pc = "DraftAnswer.post" => draft = NoRelevantInformation /\ llm_calls = 1)
         /\ (pc = "done" => final_answer = NoRelevantInformation /\ llm_calls = 1)
         /\ (pc = "done" \/ error = "call_llm" \/ ENABLED Next) )

\* the shapes of a completion that yield no valid decision
Unparseable == {"no_block", "no_fields", "no_action", "invalid_action"}

\* the Answer Step and what follows it
AnswerStages == {"DraftAnswer", "DraftAnswer.post", "done", "error"}

\* C12: the first Decision Step of a run comes after one crawl cycle, with one
\* fetch attempt, of the seed; if its completion yields no valid decision the
\* Decision Step emits answer, whatever the fetch brought; and from the Answer
\* Step on the run makes no crawl cycle and no fetch, and goes on to its end.
\* So a run whose Decision Step completions are all unparseable ends after one
\* crawl cycle with the answer action.
C12_UnparseableRun ==
    [][ /\ (pc = "AgentDecision" /\ llm_calls = 0)
              => (crawl_cycles = 1 /\ fetch_calls = 1 /\ visited_urls = {0})
        /\ (pc = "AgentDecision.post" /\ llm_calls = 1 /\ response_case \in Unparseable)
              => ( /\ pc' = "DraftAnswer"
                   /\ last_action' = "answer"
                   /\ crawl_cycles' = 1
                   /\ fetch_calls' = 1 )
        /\ (pc \in AnswerStages)
              => ( /\ pc' \in AnswerStages
                   /\ crawl_cycles' = crawl_cycles
                   /\ fetch_calls' = fetch_calls )
        /\ (pc = "DraftAnswer" => ENABLED DraftAnswer_exec)
        /\ (pc = "DraftAnswer.post" => ENABLED DraftAnswer_post)
      ]_vars

\* a completion with no block, after a fetch that brought links to follow
C12_Witness ==
    /\ pc = "AgentDecision.post"
    /\ response_case = "no_block"
    /\ llm_calls = 1
    /\ fetch_status = "ok"
    /\ Len(all_discovered_urls) > 1

\* C13: when the Answer Step runs with no page record stored, it makes no
\* model call and the final answer is the fixed message that no relevant
\* information was found.
C13_NoContentAnswer ==
    [][ /\ (pc = "DraftAnswer" /\ DOMAIN url_content = {})
              => ( /\ draft' = NoRelevantInformation
                   /\ llm_calls' = llm_calls
                   /\ pc' = "DraftAnswer.post" )
        /\ (pc = "DraftAnswer.post" /\ DOMAIN url_content = {})
              => ( /\ final_answer' = NoRelevantInformation
                   /\ llm_calls' = llm_calls
                   /\ pc' = "done" )
      ]_vars

\* a run ended with the fixed message, its one model call the Decision Step's
C13_Witness ==
    /\ pc = "done"
    /\ DOMAIN url_content = {}
    /\ final_answer = NoRelevantInformation
    /\ llm_calls = 1

\* the places of a symbol in a text
Places(sym, text) == {p \in 1..Len(text) : text[p] = sym}

\* the piece stands in the text right after place p, right before place p
Follows(text, p, piece) ==
    /\ p + Len(piece) <= Len(text)
    /\ SubSeq(text, p + 1, p + Len(piece)) = piece

Precedes(text, p, piece) ==
    /\ p - Len(piece) >= 1
    /\ SubSeq(text, p - Len(piece), p - 1) = piece

\* C14: when the Answer Step runs with at least one page record stored, it
\* makes one model call; the prompt of that call holds, for every page record,
\* its title, its URL and its whole content; and the final answer is the
\* completion of that call, unchanged.
C14_AnswerFromContent ==
    [][ /\ (pc = "DraftAnswer" /\ DOMAIN url_content # {})
              => ( /\ llm_calls' = llm_calls + 1
                   /\ \A i \in DOMAIN url_content :
                         \E p \in Places("):", prompt') :
                            /\ Precedes(prompt', p,
                                   <<"From ">> \o url_content[i].title \o <<" (">>
                                       \o url_content[i].url)
                            /\ Follows(prompt', p,
                                   <<"\n">> \o url_content[i].content \o <<"\n">>)
                   /\ (pc' = "DraftAnswer.post" => draft' = response') )
        /\ (pc = "DraftAnswer.post" /\ DOMAIN url_content # {})
              => ( /\ final_answer' = response
                   /\ llm_calls' = llm_calls
                   /\ pc' = "done" )
      ]_vars

\* a run ended with the completion as its answer, after a prompt that held
\* three page records, one of them longer than the Decision Step's cut
C14_Witness ==
    /\ pc = "done"
    /\ final_answer = <<"The answer.">>
    /\ Len(url_content_keys) = 3
    /\ \E i \in DOMAIN url_content : Len(url_content[i].content) > 500

\* the moves of the flow: within a step from exec to post, from step to step,
\* and out of a step whose exec or post raised
StepOrder ==
    { <<"CrawlAndExtract", "CrawlAndExtract.post">>,
      <<"CrawlAndExtract.post", "AgentDecision">>,
      <<"AgentDecision", "AgentDecision.post">>,
      <<"AgentDecision", "error">>,
      <<"AgentDecision.post", "CrawlAndExtract">>,
      <<"AgentDecision.post", "DraftAnswer">>,
      <<"AgentDecision.post", "error">>,
      <<"DraftAnswer", "DraftAnswer.post">>,
      <<"DraftAnswer", "error">>,
      <<"DraftAnswer.post", "done">> }

\* C15: a run starts with a Crawl Step on the seed; a Crawl Step is followed
\* by a Decision Step; a Decision Step that emits explore is followed by a
\* Crawl Step and one that emits answer by the Answer Step; the Answer Step
\* makes no fetch and leaves the frontier as it is, and after it nothing
\* changes any more.  (A step that raises is followed by nothing.)
C15_StepOrder ==
    [][ /\ (crawl_cycles = 0)
              => ( /\ pc = "CrawlAndExtract"
                   /\ CrawlPrep.url_index = 0
                   /\ CrawlPrep.url = all_discovered_urls[1] )
        /\ (pc' # pc) => (<<pc, pc'>> \in StepOrder)
        /\ (pc = "CrawlAndExtract.post") => (pc' = "AgentDecision")
        /\ (pc = "AgentDecision.post" /\ pc' # "error")
              => ( /\ last_action' \in {"explore", "answer"}
                   /\ (last_action' = "explore") => (pc' = "CrawlAndExtract")
                   /\ (last_action' = "answer") => (pc' = "DraftAnswer") )
        /\ (pc \in {"DraftAnswer", "DraftAnswer.post"})
              => ( /\ fetch_calls' = fetch_calls
                   /\ UNCHANGED <<urls_to_process, visited_urls, all_discovered_urls,
                                  url_content>> )
        /\ (pc = "DraftAnswer.post") => (llm_calls' = llm_calls)
        /\ (pc = "done") => UNCHANGED vars
      ]_vars

\* a run that looped through the Crawl Step twice and ended with its answer
C15_Witness ==
    /\ pc = "done"
    /\ crawl_cycles = 2
    /\ requested_action = "answer"
    /\ final_answer # None

\* C16: the index a Crawl Step fetches has not been visited; the Crawl Step
\* marks it visited, whether the fetch succeeded or failed; no index ever
\* leaves the visited set; and a page record, once stored, stays as it is.
\* So no index is fetched twice and no record is overwritten or removed.
C16_WriteOnce ==
    [][ /\ (pc = "CrawlAndExtract" /\ CrawlPrep # NoPrep)
              => (CrawlPrep.url_index \notin visited_urls)
        /\ (pc = "CrawlAndExtract.post" /\ crawl_res # NoCrawl)
              => ( /\ crawl_res.url_index \notin DOMAIN url_content
                   /\ crawl_res.url_index \in visited_urls' )
        /\ visited_urls \subseteq visited_urls'
        /\ \A i \in DOMAIN url_content :
              /\ i \in DOMAIN url_content'
              /\ url_content'[i] = url_content[i]
      ]_vars

\* a second index fetched, with a failure, while the seed's record is stored
C16_Witness ==
    /\ pc = "CrawlAndExtract.post"
    /\ crawl_cycles = 2
    /\ crawl_res.url_index = 1
    /\ fetch_status = "failed"
    /\ 0 \in DOMAIN url_content

NoDuplicates(list) ==
    \A i, j \in 1..Len(list) : (list[i] = list[j]) => (i = j)

\* the URLs of a list that are not among those present, each once, in order
RECURSIVE FirstNew(_, _)
FirstNew(urls, present) ==
    IF urls = <<>> THEN <<>>
    ELSE IF Head(urls) \in present THEN FirstNew(Tail(urls), present)
    ELSE <<Head(urls)>> \o FirstNew(Tail(urls), present \cup {Head(urls)})

\* C17: the discovery list never holds a URL twice; a step leaves the URLs
\* already in it where they are; and a Crawl Step appends to it the link URLs
\* the fetch returned that are not yet in it, each once, in the order returned.
C17_DiscoveryList ==
    [][ /\ NoDuplicates(all_discovered_urls)
        /\ NoDuplicates(all_discovered_urls')
        /\ Len(all_discovered_urls') >= Len(all_discovered_urls)
        /\ SubSeq(all_discovered_urls', 1, Len(all_discovered_urls))
              = all_discovered_urls
        /\ (pc # "CrawlAndExtract.post")
              => (all_discovered_urls' = all_discovered_urls)
        /\ (pc = "CrawlAndExtract.post")
              => LET link_urls == [k \in 1..Len(crawl_res.links) |->
                                    crawl_res.links[k].url]
                     present == {all_discovered_urls[i] :
                                    i \in 1..Len(all_discovered_urls)}
                 IN  all_discovered_urls'
                       = all_discovered_urls \o FirstNew(link_urls, present)
      ]_vars

\* a fetch returned a URL the list holds already and one it does not hold
C17_Witness ==
    /\ pc = "CrawlAndExtract.post"
    /\ \E k \in 1..Len(crawl_res.links) :
          InList(crawl_res.links[k].url, all_discovered_urls)
    /\ \E k \in 1..Len(crawl_res.links) :
          ~InList(crawl_res.links[k].url, all_discovered_urls)

\* C18: in a state where every index of the discovery list is visited, the
\* queue is empty and the visited set has as many elements as the discovery
\* list has URLs.
C18_RoundTrip ==
    (\A i \in 0..(Len(all_discovered_urls) - 1) : i \in visited_urls)
    => ( /\ urls_to_process = <<>>
         /\ Cardinality(visited_urls) = Len(all_discovered_urls) )

\* three URLs discovered, and all three processed
C18_Witness ==
    /\ pc = "AgentDecision"
    /\ Len(all_discovered_urls) = 3
    /\ visited_urls = {0, 1, 2}
    /\ urls_to_process = <<>>

\* the unvisited indices of the discovery list, in its order
Unvisited == SelectSeq(Indices(all_discovered_urls), IsUnvisited)

\* C20: the prompt the Decision Step sends holds every stored page record with
\* its content cut to 500 characters; it lists as candidates the first
\* min(10, n) of the n unvisited discovered URLs, in discovery order, and no
\* others; and it lists no visited URL.
C20_DecisionContext ==
    [][ (pc = "AgentDecision" /\ pc' = "AgentDecision.post")
        => LET n == Len(Unvisited)
               offered == SubSeq(Unvisited, 1, IF n < 10 THEN n ELSE 10)
               lines == Join([k \in 1..Len(offered) |->
                                 <<"- ">> \o all_discovered_urls[offered[k] + 1]],
                             <<"\n">>)
           IN  /\ \A i \in DOMAIN url_content :
                     \E p \in Places("Content: ", prompt') :
                        Follows(prompt', p,
                                Prefix(url_content[i].content, 500) \o <<"\n">>)
               /\ (n > 0)
                     => \E p \in Places("AVAILABLE URLS TO EXPLORE:", prompt') :
                           Follows(prompt', p,
                                   <<"\n">> \o lines
                                       \o <<"\n", "\n", "CURRENT STATUS:">>)
               /\ \A i \in visited_urls :
                     \A p \in Places("- ", prompt') :
                        ~Follows(prompt', p,
                                 all_discovered_urls[i + 1] \o <<"\n">>)
      ]_vars

\* C19: two calls of the run entry point never hold the same dict; a call
\* that starts has a frontier and a page-record map as initialize_shared_store
\* builds them; while a call waits, the steps of the other leave its dict and
\* its locals as they are; and when it goes on, it finds the items it last
\* saw.  So what a run does depends on its own question, seed, fetch results
\* and completions only.
C19_RunIsolation ==
    [][ /\ \A c1, c2 \in DOMAIN store_of :
              (c1 # c2) => (store_of[c1] # store_of[c2])
        /\ (active' \notin DOMAIN store_of)
              => ( /\ \E question \in Questions, base_url \in SeedUrls :
                         Items' = InitialItems(question, base_url)
                   /\ Locals' = InitialLocals )
        /\ \A call \in DOMAIN suspended :
              /\ (call \in DOMAIN suspended')
                    => ( /\ suspended'[call] = suspended[call]
                         /\ store_of[call] \in DOMAIN stores'
                         /\ stores'[store_of[call]] = suspended[call].seen )
              /\ (active' = call)
                    => ( /\ Items' = suspended[call].seen
                         /\ Locals' = suspended[call].locals )
      ]_vars

\* the two calls, interleaved, both at their end, each with its own records
C19_Witness ==
    /\ active = "first"
    /\ pc = "done"
    /\ crawl_cycles = 2
    /\ "second" \in DOMAIN suspended
    /\ suspended["second"].locals.pc = "done"
    /\ suspended["second"].locals.crawl_cycles = 1
    /\ DOMAIN suspended["second"].seen.url_content = {}
    /\ DOMAIN url_content = {0, 1}

-----------------------------------------------------------------------------
(* utils/url_utils.py, utils/web_scraper.py: the helpers on their own *)

\* what the claims call punctuation, among the symbols of the questions
Punctuation == {"?", ".", ",", "'", "-", "!"}

IsNoPunctuation(c) == c \notin Punctuation

\* the tokens of a question: its whitespace-separated pieces, each lower-cased
\* and with its punctuation taken out
Tokens(question) ==
    LET pieces == Words(question)
    IN  [i \in 1..Len(pieces) |-> SelectSeq(Lower(pieces[i]), IsNoPunctuation)]

IsLongNonStopWord(token) == token \notin stop_words /\ Len(token) >= 3

\* C21: for every question, extractKeywords returns, in order of occurrence
\* and with repeats kept, exactly the lower-cased, punctuation-stripped,
\* whitespace-separated tokens that are no stop word and are longer than 2
\* characters; no stop word and no token of 2 characters or less is returned.
C21_ExtractKeywords ==
    (called.fn = "extract_question_keywords" /\ returned.done)
        => /\ returned.value = SelectSeq(Tokens(called.question), IsLongNonStopWord)
           /\ \A i \in 1..Len(returned.value) :
                 /\ returned.value[i] \notin stop_words
                 /\ Len(returned.value[i]) > 2

\* a question with a stop word, a short word, a word kept twice over and
\* punctuation has been through extractKeywords
C21_Witness ==
    /\ called.fn = "extract_question_keywords"
    /\ called.question = <<"R","e","f","u","n","d","?">> \o <<" ", " ">>
                             \o <<"r","e","f","u","n","d">>
    /\ returned.done
    /\ returned.value = << <<"r","e","f","u","n","d">>, <<"r","e","f","u","n","d">> >>

\* C22: for the question "How do I get a refund?" extractKeywords yields
\* exactly {"refund"}: "how", "do", "i", "get" and "a" are all removed.
C22_RefundScenario ==
    (/\ called.fn = "extract_question_keywords"
     /\ called.question = <<"H","o","w"," ","d","o"," ","I"," ","g","e","t"," ",
                            "a"," ","r","e","f","u","n","d","?">>
     /\ returned.done)
        => returned.value = << <<"r","e","f","u","n","d">> >>

\* the number of question keywords (repeats counted) that the test holds for
HowMany(keywords, Test(_)) ==
    Cardinality({k \in 1..Len(keywords) : Test(Lower(keywords[k]))})

\* the score of a link as a sum of counts
ScoreByCount(link, keywords) ==
    LET url == Lower(link.url)
        text == Lower(link.text)
        path_keywords == get_url_keywords(url)
        InPath(keyword) ==
            \E i \in 1..Len(path_keywords) : IsSubstr(keyword, path_keywords[i])
        InText(keyword) == IsSubstr(keyword, text)
        found == {i \in 1..Len(helpful_indicators) :
                     \/ IsSubstr(helpful_indicators[i], url)
                     \/ IsSubstr(helpful_indicators[i], text)}
    IN  3 * HowMany(keywords, InPath) + 2 * HowMany(keywords, InText)
          + Cardinality(found)

\* the link of a ranked record
LinkOf(rec) == [url |-> rec.url, text |-> rec.text]

\* C24: the score of a link is 3 times the number of question keywords that
\* are a substring of some URL-path keyword, plus 2 times the number of
\* question keywords that are a substring of the lower-cased anchor text, plus
\* 1 for each helpful-page indicator word that occurs in the URL or in the
\* anchor text.
C24_LinkScore ==
    (called.fn = "find_relevant_urls" /\ returned.done)
        => LET keywords == called.question_keywords
               ranked == returned.value
               IsScored(link) == ScoreByCount(link, keywords) > 0
           IN  /\ \A i \in 1..Len(ranked) :
                     ranked[i].score = ScoreByCount(LinkOf(ranked[i]), keywords)
               /\ Len(ranked) = Len(SelectSeq(called.links, IsScored))

\* a link with the question keyword, twice in the keyword list, in its path
\* and in its text, and with two indicator words, has got its score:
\* 3 * 2 + 2 * 2 + 2
C24_Witness ==
    /\ called.fn = "find_relevant_urls"
    /\ called.question_keywords
          = << <<"r","e","f","u","n","d">>, <<"r","e","f","u","n","d">> >>
    /\ returned.done
    /\ \E i \in 1..Len(returned.value) :
          returned.value[i].url = Url_policy /\ returned.value[i].score = 12

\* the ranked records of a list of links, each ranked on its own
RECURSIVE RankedAlone(_, _)
RankedAlone(links, keywords) ==
    IF links = <<>> THEN <<>>
    ELSE find_relevant_urls(<<Head(links)>>, keywords)
         \o RankedAlone(Tail(links), keywords)

\* C23: the ranked output contains exactly the input links whose score is
\* greater than 0, in non-increasing score order, with links of equal score
\* in their input order; every score is non-negative, and the score of a link
\* does not depend on the position or presence of other links.
C23_RankedLinks ==
    (called.fn = "find_relevant_urls" /\ returned.done)
        => LET ranked == returned.value
               alone == RankedAlone(called.links, called.question_keywords)
               scores == {ranked[i].score : i \in 1..Len(ranked)}
                         \cup {alone[i].score : i \in 1..Len(alone)}
           IN  /\ \A i \in 1..Len(ranked) : ranked[i].score > 0
               /\ \A i, j \in 1..Len(ranked) :
                     i < j => ranked[i].score >= ranked[j].score
               /\ \A v \in scores :
                     LET HasScore(rec) == rec.score = v
                     IN  SelectSeq(ranked, HasScore) = SelectSeq(alone, HasScore)

\* three links have been ranked: the last one scores highest and comes first,
\* the other two have one score and keep their input order
C23_Witness ==
    /\ called.fn = "find_relevant_urls"
    /\ called.question_keywords = << <<"r","e","f","u","n","d">> >>
    /\ Len(called.links) = 3
    /\ called.links[1].url = Url_query
    /\ called.links[2].url = Url_help
    /\ called.links[3].url = Url_policy
    /\ returned.done
    /\ Len(returned.value) = 3
    /\ returned.value[1].url = Url_policy
    /\ returned.value[2].url = Url_query
    /\ returned.value[3].url = Url_help
    /\ returned.value[2].score = returned.value[3].score

\* the units of a text: its pieces between full stops, without the
\* whitespace around them
Units(text) ==
    LET pieces == Split(text, ".")
    IN  [i \in 1..Len(pieces) |-> Strip(pieces[i])]

\* C25: for every text and every keyword set, extractRelevantContent gives
\* the units of the text (split on '.') that contain some keyword
\* case-insensitively, in order, joined with '. '; if no unit contains a
\* keyword, it gives the first 1000 characters of the text.
\* ("A. B has refund info. C.", ["refund"]) gives "B has refund info".
C25_RelevantContent ==
    (called.fn = "extract_relevant_content" /\ returned.done)
        => LET keywords == called.keywords
               HasKeyword(unit) ==
                   \E k \in 1..Len(keywords) :
                       IsSubstr(Lower(keywords[k]), Lower(unit))
               kept == SelectSeq(Units(called.content), HasKeyword)
           IN  /\ (kept # <<>>) => returned.value = Join(kept, <<".", " ">>)
               /\ (kept = <<>>) => returned.value = Prefix(called.content, 1000)
               /\ (called.content = Text_scenario
                      /\ keywords = << <<"r","e","f","u","n","d">> >>)
                     => returned.value = <<"B"," ","h","a","s"," ","r","e","f","u",
                                           "n","d"," ","i","n","f","o">>

\* a is b with some of its members left out
RECURSIVE IsSubsequence(_, _)
IsSubsequence(a, b) ==
    IF a = <<>> THEN TRUE
    ELSE IF b = <<>> THEN FALSE
    ELSE IF Head(a) = Head(b) THEN IsSubsequence(Tail(a), Tail(b))
    ELSE IsSubsequence(a, Tail(b))

\* the absolute URLs of the anchors of a page, in page order
PageAnchorUrls(url, body) ==
    LET anchors == SelectSeq(body, IsAnchor)
    IN  [i \in 1..Len(anchors) |-> urljoin(url, anchors[i].href)]

\* C26: every successful fetch result has content of at most 5000
\* characters and at most 20 links, all with a URL on the same domain (netloc)
\* as the fetched URL, no two with the same URL and in page order; every
\* failed fetch result carries an error and has no content and no links.
C26_FetchResultShape ==
    (called.fn = "scrape_website" /\ returned.done)
        => LET result == returned.value
               links == result.links
               urls == [i \in 1..Len(links) |-> links[i].url]
           IN  IF result.error = None
               THEN /\ result.content # None
                    /\ Len(result.content) <= 5000
                    /\ Len(links) <= 20
                    /\ \A i \in 1..Len(links) : Netloc(urls[i]) = Netloc(called.url)
                    /\ \A i, j \in 1..Len(links) : urls[i] = urls[j] => i = j
                    /\ IsSubsequence(urls, PageAnchorUrls(called.url, called.outcome.body))
               ELSE /\ Truthy(result.error)
                    /\ result.content = None
                    /\ links = <<>>

\* a page of more than 5000 characters, with a link to another site and more
\* than 20 links to its own, has been fetched: the result is cut to 5000
\* characters and to 20 links
C26_Witness ==
    /\ called.fn = "scrape_website"
    /\ returned.done
    /\ returned.value.error = None
    /\ Len(get_text(called.outcome.body)) > 5000
    /\ Len(called.outcome.body) > 21
    /\ \E i \in 1..Len(called.outcome.body) : called.outcome.body[i].href = Url_other
    /\ Len(returned.value.content) = 5000
    /\ Len(returned.value.links) = 20

-----------------------------------------------------------------------------
(* The run as a whole *)

CrawlAndDecisionSteps ==
    {"CrawlAndExtract", "CrawlAndExtract.post", "AgentDecision", "AgentDecision.post"}

\* C27: every run that returns to its caller without raising returns a store
\* whose final answer is set, a text and not null; the final answer stays
\* unset through all Crawl and Decision Steps and is written exactly once, by
\* the Answer Step.
C27_FinalAnswerWrittenOnce ==
    [][ /\ pc # "done"
        /\ (pc' = "done") => (final_answer' # None /\ error' = "none")
        /\ (pc \in CrawlAndDecisionSteps)
              => (final_answer = None /\ final_answer' = None)
        /\ (final_answer' # final_answer)
              => (pc = "DraftAnswer.post" /\ final_answer = None /\ pc' = "done")
        /\ (pc = "DraftAnswer.post") => (final_answer' = draft /\ draft # None)
      ]_vars

\* a run of two crawl cycles and two decisions returned with the answer of
\* the model
C27_Witness ==
    /\ pc = "done"
    /\ error = "none"
    /\ crawl_cycles = 2
    /\ llm_calls = 3
    /\ final_answer = <<"The answer.">>

\* C30: the pending queue never holds more than one index: it holds exactly
\* one index whenever a Crawl Step starts, and it is empty whenever a Decision
\* Step starts and when the run ends.
C30_QueueOfOne ==
    /\ Len(urls_to_process) <= 1
    /\ (pc = "CrawlAndExtract") => (Len(urls_to_process) = 1)
    /\ (pc = "AgentDecision") => (urls_to_process = <<>>)
    /\ (pc \in {"done", "error"}) => (urls_to_process = <<>>)

\* a second Crawl Step starts, with the index the Decision Step chose as the
\* one index in the queue
C30_Witness ==
    /\ pc = "CrawlAndExtract"
    /\ crawl_cycles = 1
    /\ visited_urls = {0}
    /\ urls_to_process = <<1>>

\* the index the decision in hand resolves to, or -1
Resolved ==
    IF DecidedAction = Explore /\ RawNextUrl.type = "str"
    THEN FindNextUrlIndex(Strip(RawNextUrl.s), all_discovered_urls)
    ELSE -1

\* C28: the control loop enforces no limit on the number of pages: whenever
\* the model answers explore with a URL that resolves to an unvisited
\* discovered page, that page is crawled next, however many pages the run has
\* visited, so a run can reach a state with more than 5 visited pages.
C28_NoPageLimit ==
    [][ /\ (pc = "AgentDecision.post" /\ Resolved # -1 /\ Resolved \notin visited_urls)
              => ( /\ last_action' = "explore"
                   /\ pc' = "CrawlAndExtract"
                   /\ urls_to_process' = <<Resolved>> )
        /\ (pc = "CrawlAndExtract" /\ last_action = "explore")
              => ( /\ fetch_calls' = fetch_calls + 1
                   /\ crawl_res'.url_index = urls_to_process[1] )
        /\ (pc = "CrawlAndExtract.post" /\ last_action = "explore")
              => ( /\ crawl_res.url_index \notin visited_urls
                   /\ visited_urls' = visited_urls \cup {crawl_res.url_index} )
      ]_vars

\* with 5 pages visited the model answered explore once more, and the run
\* has visited a sixth page
C28_Witness ==
    /\ Cardinality(visited_urls) > 5
    /\ crawl_cycles = 6
    /\ llm_calls >= 5

-----------------------------------------------------------------------------
(* main.py: the chat endpoint *)

IsBlank(text) == \A i \in 1..Len(text) : text[i] \in Whitespace

\* C29: a request whose question, or whose website URL, is empty or
\* whitespace-only is answered with HTTP status 400 and no run is started;
\* status 500 is returned only for errors raised while processing a valid
\* request.
C29_InputValidation ==
    LET invalid == IsBlank(request.question) \/ IsBlank(request.website_url)
    IN  /\ invalid => (pc \in {"chat_endpoint", "replied"} /\ fetch_calls = 0
                         /\ llm_calls = 0 /\ DOMAIN store_of = {})
        /\ (invalid /\ pc = "replied") => reply.status_code = 400
        /\ (reply.status_code = 500) => (~invalid /\ error # "none")

-----------------------------------------------------------------------------
(* nodes.py: the page records and the frontier *)

\* C31: in every reachable state every index that keys a page record is in
\* the visited set, and the URL stored in that record is the discovery-list
\* entry at that index.
C31_RecordsMatchFrontier ==
    \A url_index \in DOMAIN url_content :
        /\ url_index \in visited_urls
        /\ url_index + 1 \in 1..Len(all_discovered_urls)
        /\ url_content[url_index].url = all_discovered_urls[url_index + 1]

\* two pages are stored, the second one a page discovered through a link of
\* the first, while another discovered URL is still unvisited
C31_Witness ==
    /\ Cardinality(DOMAIN url_content) >= 2
    /\ \E url_index \in DOMAIN url_content : url_index > 0
    /\ Len(all_discovered_urls) > Cardinality(visited_urls)

\* C32: in every reachable state every URL of the discovery list has the
\* network location of the seed URL, the list's first entry; the frontier
\* appends whatever links the fetcher returns, so this rests on the fetcher
\* keeping only same-domain links.
C32_DiscoveredOnSeedDomain ==
    \A k \in 1..Len(all_discovered_urls) :
        Netloc(all_discovered_urls[k]) = Netloc(all_discovered_urls[1])

\* links of two fetched pages have been appended after the seed URL, one of
\* them built from a root-relative href
C32_Witness ==
    /\ Len(all_discovered_urls) >= 3
    /\ Cardinality(DOMAIN url_content) >= 2
    /\ InList(Url_ab, all_discovered_urls)
    /\ all_discovered_urls[1] \in SeedUrls

-----------------------------------------------------------------------------
(* nodes.py: the calls of a run *)

\* the counts of fetch attempts, of model calls and of visited indices
Counts == <<fetch_calls, llm_calls, Cardinality(visited_urls)>>

\* C33: a Crawl Step makes exactly one fetch attempt and its post step grows
\* the visited set by exactly one index, the Decision Step that follows makes
\* exactly one model call, and no other step changes these counts but the
\* Answer Step, which makes at most one model call; so when the Decision Step
\* hands over to the Answer Step fetch attempts, model calls and visited
\* indices are equal in number, and when the run ends normally fetch attempts
\* and visited indices are still equal and the model calls are at most one
\* more.
C33_CallAccounting ==
    [][ /\ (pc = "CrawlAndExtract")
              => Counts' = <<fetch_calls + 1, llm_calls, Cardinality(visited_urls)>>
        /\ (pc = "CrawlAndExtract.post")
              => ( /\ Counts' = <<fetch_calls, llm_calls, Cardinality(visited_urls) + 1>>
                   /\ visited_urls \subseteq visited_urls'
                   /\ pc' = "AgentDecision" )
        /\ (pc = "AgentDecision")
              => Counts' = <<fetch_calls, llm_calls + 1, Cardinality(visited_urls)>>
        /\ (pc \in {"AgentDecision.post", "DraftAnswer.post"})
              => Counts' = Counts
        /\ (pc = "DraftAnswer")
              => ( /\ llm_calls' \in {llm_calls, llm_calls + 1}
                   /\ fetch_calls' = fetch_calls
                   /\ visited_urls' = visited_urls )
        /\ (pc' = "DraftAnswer")
              => ( /\ fetch_calls' = crawl_cycles'
                   /\ llm_calls' = fetch_calls'
                   /\ Cardinality(visited_urls') = fetch_calls' )
        /\ (pc' = "done")
              => ( /\ error' = "none"
                   /\ fetch_calls' = crawl_cycles'
                   /\ Cardinality(visited_urls') = fetch_calls'
                   /\ llm_calls' - fetch_calls' \in {0, 1} )
      ]_vars

\* a run of two cycles has ended normally, its Answer Step having called
\* the model: two fetch attempts, two visited indices, three model calls
C33_Witness ==
    /\ pc = "done"
    /\ error = "none"
    /\ crawl_cycles = 2
    /\ fetch_calls = 2
    /\ Cardinality(visited_urls) = 2
    /\ llm_calls = 3

====
